---- MODULE Spec2Model ----
(***************************************************************************)
(* The automatic-message pipeline of the chat service:                     *)
(*   MessagePlanningJob / AutoMessageService  (Planner)                    *)
(*   QueueManagerJob / QueueService           (Dispatcher)                 *)
(*   RabbitMQConfig                           (broker connector)           *)
(*   MessageSubscriber / MessageConsumerService (Consumer)                 *)
(* Every action is one run of the code between two suspension points       *)
(* (await); Node runs such a stretch without interleaving.                 *)
(***************************************************************************)
EXTENDS Integers, Sequences, FiniteSets, TLC

\* ------------------------------------------------------------------ bounds
MaxPlanned == 1        \* PlannedMessages the Planner may create in a behaviour
MaxForeign == 1        \* frames put on the queue by other publishers
MaxFaults == 1         \* store / broker / presence calls that may fail
MaxInvocations == 2    \* invocation slots of one job (cron tick, manual trigger)
MaxSeed == 2           \* PlannedMessages in the store when the Dispatcher is studied alone
MaxUsers == 4          \* active users when the pairing is studied alone
MaxSockets == 2        \* transport connections opened in a behaviour
MaxSends == 1          \* messages sent by users in a behaviour

\* ------------------------------------------------------- program constants
RetryAttempts == 3     \* ConsumerConfig.retryAttempts
BatchSize == 50        \* processPendingMessages batchSize
Prefetch == 10         \* ConsumerConfig.prefetch
ContentMax == 1000     \* validateQueueMessage content limit

\* ------------------------------------------------------------ sample data
\* The users collection: nothing in the pipeline creates, deletes or
\* deactivates a user, so it is a fixed table.
users ==
  << [id |-> 1, isActive |-> TRUE],
     [id |-> 2, isActive |-> TRUE],
     [id |-> 3, isActive |-> FALSE] >>

UserIds == {users[i].id : i \in DOMAIN users}

\* MESSAGE_TEMPLATES, as character sequences in ASCII (only the length and
\* the blanks of a content are ever inspected)
MESSAGE_TEMPLATES ==
  << << "M", "e", "r", "h", "a", "b", "a", "!", " ", "N", "a", "s", "i", "l", "s", "i",
       "n", "?" >>,
     << "B", "u", "g", "u", "n", " ", "n", "a", "s", "i", "l", " ", "g", "e", "c", "i",
       "y", "o", "r", "?" >>,
     << "S", "e", "l", "a", "m", ",", " ", "n", "e", " ", "y", "a", "p", "i", "y", "o",
       "r", "s", "u", "n", "?" >>,
     << "I", "y", "i", " ", "g", "u", "n", "l", "e", "r", "!", " ", "K", "e", "y", "i",
       "f", "l", "e", "r", " ", "n", "a", "s", "i", "l", "?" >>,
     << "H", "a", "d", "i", " ", "b", "i", "r", "a", "z", " ", "s", "o", "h", "b", "e",
       "t", " ", "e", "d", "e", "l", "i", "m", "!" >>,
     << "B", "u", "g", "u", "n", " ", "g", "u", "z", "e", "l", " ", "b", "i", "r", " ",
       "g", "u", "n", " ", "d", "e", "g", "i", "l", " ", "m", "i", "?" >>,
     << "N", "a", "s", "i", "l", " ", "g", "i", "d", "i", "y", "o", "r", " ", "i", "s",
       "l", "e", "r", "?" >>,
     << "S", "e", "l", "a", "m", "!", " ", "U", "z", "u", "n", " ", "z", "a", "m", "a",
       "n", "d", "i", "r", " ", "k", "o", "n", "u", "s", "m", "u", "y", "o", "r", "u",
       "z", "." >> >>

\* the indexes Math.random() is sampled at in getRandomMessageTemplate
TemplateSamples == {1}

\* the values Math.random() is sampled at in generateRandomSendDate
HourSamples == {1}
MinuteSamples == {0, 59}

\* the duration Date.now() - startTime of a delivery, in milliseconds
ProcessingTimeSamples == {5}

\* the presence set as the transport layer left it: user 2 is connected
OnlineSample == {2}

\* the users that open transport connections
SocketUsers == {1, 2}

\* what other publishers put on message_sending_queue
ForeignEnvelopes ==
  { [autoMessageId |-> 9, senderId |-> 1, receiverId |-> 2,
     content |-> <<"h", "i">>, originalSendDate |-> 0, queuedAt |-> 0],
    [autoMessageId |-> 9, senderId |-> 2, receiverId |-> 3,
     content |-> <<"h", "i">>, originalSendDate |-> 0, queuedAt |-> 0] }
ForeignHeaders == { <<>>, <<2>>, <<3>>, <<4>> }

\* envelopes that break one rule of validateQueueMessage each
LongContent == [k \in 1..(ContentMax + 1) |-> "a"]

IllFormedEnvelopes ==
  { [autoMessageId |-> 0, senderId |-> 1, receiverId |-> 2,
     content |-> <<"h", "i">>, originalSendDate |-> 0, queuedAt |-> 0],
    [autoMessageId |-> 9, senderId |-> 0, receiverId |-> 2,
     content |-> <<"h", "i">>, originalSendDate |-> 0, queuedAt |-> 0],
    [autoMessageId |-> 9, senderId |-> 1, receiverId |-> 0,
     content |-> <<"h", "i">>, originalSendDate |-> 0, queuedAt |-> 0],
    [autoMessageId |-> 9, senderId |-> 1, receiverId |-> 2,
     content |-> <<" ", " ">>, originalSendDate |-> 0, queuedAt |-> 0],
    [autoMessageId |-> 9, senderId |-> 1, receiverId |-> 2,
     content |-> LongContent, originalSendDate |-> 0, queuedAt |-> 0],
    [autoMessageId |-> 9, senderId |-> 1, receiverId |-> 1,
     content |-> <<"h", "i">>, originalSendDate |-> 0, queuedAt |-> 0] }

\* an id no document of the users collection has
NoSuchUser == 7

\* sender and receiver of a PlannedMessage at the time its envelope is
\* consumed: both active, or one of them deleted or deactivated since planning
PlannedPairs == { <<1, 2>>, <<NoSuchUser, 2>>, <<1, NoSuchUser>>, <<3, 1>>, <<2, 3>> }

\* envelopes between the same two users, in both directions
PairEnvelopes ==
  { [autoMessageId |-> 9, senderId |-> 1, receiverId |-> 2,
     content |-> <<"h", "i">>, originalSendDate |-> 0, queuedAt |-> 0],
    [autoMessageId |-> 9, senderId |-> 2, receiverId |-> 1,
     content |-> <<"h", "i">>, originalSendDate |-> 0, queuedAt |-> 0] }

\* the conversations collection as earlier messages left it: empty, or one
\* conversation, created with either participant first
ConversationSeeds ==
  { <<>> } \cup
  { << [id |-> 1, participants |-> pair, lastMessage |-> <<>>, updatedAt |-> 0] >> :
      pair \in { <<1, 2>>, <<2, 1>>, <<1, 3>> } }

\* what users send: the text, and the conversation ids they name
SendContents == { <<" ", "o", "k">> }
SendConversationIds == {1, 2}

Jobs == {"planning", "queue"}
Slots == 1..MaxInvocations

\* --------------------------------------------------------- pure functions
Min(a, b) == IF a < b THEN a ELSE b

Range(s) == {s[i] : i \in DOMAIN s}

\* Array.prototype.slice(from, to) with 0-based from (inclusive), to (exclusive)
Slice(s, from, to) == SubSeq(s, from + 1, Min(to, Len(s)))

\* String.prototype.trim on a character sequence
RECURSIVE TrimLeft(_)
TrimLeft(s) == IF s # <<>> /\ Head(s) = " " THEN TrimLeft(Tail(s)) ELSE s

RECURSIVE TrimRight(_)
TrimRight(s) ==
  IF s # <<>> /\ s[Len(s)] = " " THEN TrimRight(SubSeq(s, 1, Len(s) - 1)) ELSE s

Trim(s) == TrimRight(TrimLeft(s))

\* JSON.stringify / Buffer.from of an envelope, and JSON.parse of a payload:
\* a payload is either the JSON text of an envelope or bytes that do not parse
NoEnvelope ==
  [autoMessageId |-> 0, senderId |-> 0, receiverId |-> 0, content |-> <<>>,
   originalSendDate |-> 0, queuedAt |-> 0]
Stringify(envelope) == [kind |-> "json", body |-> envelope]
Garbage == [kind |-> "garbage", body |-> NoEnvelope]
Parses(payload) == payload.kind = "json"
Parse(payload) == payload.body

\* message.properties.headers: <<>> when x-retry-count is absent, <<n>> when set
NoHeader == <<>>
\* (headers?.['x-retry-count'] as number) || 0
retryCount(header) == IF header = <<>> THEN 0 ELSE IF header[1] = 0 THEN 0 ELSE header[1]

\* ----------------------------------------------------------------- state
VARIABLES
  now,             \* the wall clock, in minutes
  autoMessages,    \* auto_messages collection, in insertion order; _id = index
  conversations,   \* conversations collection; _id = index; lastMessage is <<>>
                   \* while the document has none
  messages,        \* messages collection; _id = index
  frames,          \* every frame ever put on message_sending_queue
  queue,           \* frames waiting for delivery, oldest first
  isConnected,     \* RabbitMQConfig.isConnected
  subscribed,      \* channel.consume() has registered the callback
  consumerRunning, \* MessageSubscriber.isRunning
  stats,           \* MessageSubscriber.stats counters
  onlineUsers,     \* presence set online_users
  userInfo,        \* the users whose key user_info:{id} exists
  sockets,         \* the transport connections accepted so far
  jobRunning,      \* isRunning flag of each job
  jobStats,        \* QueueManagerJob counters; failedAt is the step at which the
                   \* last failed run threw (the error the job logged)
  skipped,         \* an invocation of the job was skipped during the current run
  pruns,           \* MessagePlanningJob.executeJob invocations
  qruns,           \* QueueManagerJob.executeJob invocations
  isInitialized,   \* JobManager.isInitialized
  cronJob,         \* whether each job holds a scheduled cron task (cronJob !== null)
  sends,           \* MessageService.createMessage calls (REST and socket send_message)
  listener,        \* a listener for MESSAGE_PROCESSED is registered on the subscriber
  faults,          \* number of failed external calls so far
  foreign          \* number of frames published by other publishers so far

vars == << now, autoMessages, conversations, messages, frames, queue,
           isConnected, subscribed, consumerRunning, stats, onlineUsers,
           userInfo, sockets,
           jobRunning, jobStats, skipped, pruns, qruns, isInitialized, cronJob,
           sends, listener, faults, foreign >>

storeVars == << autoMessages, conversations, messages >>
brokerVars == << frames, queue, isConnected >>
consumerVars == << subscribed, consumerRunning, stats >>
presenceVars == << onlineUsers, userInfo, sockets >>
jobVars == << jobRunning, jobStats, skipped, pruns, qruns >>
schedulerVars == << isInitialized, cronJob >>

\* an invocation of MessagePlanningJob.executeJob: activeUsers is the result
\* of the User.find in flight, data the autoMessageData built from the pairs
\* a transport connection of a user: on is the position of its
\* handleUserOnline, off the position of its handleUserOffline; onSeq and
\* offSeq are the places of their second commands in the command queue of the
\* one Redis connection, overlapped records that a call for the same user
\* was in progress when the other began
NewSocket(userId) ==
  [user |-> userId, open |-> TRUE, on |-> "setex", off |-> "none",
   onSeq |-> 0, offSeq |-> 0, overlapped |-> FALSE]

\* the connections behind OnlineSample: one per user, handler finished
ConnectedSample ==
  [k \in 1..Cardinality(OnlineSample) |->
     [NewSocket(CHOOSE u \in OnlineSample :
                  Cardinality({v \in OnlineSample : v < u}) = k - 1)
        EXCEPT !.on = "done"]]

IdlePlan == [pc |-> "idle", activeUsers |-> <<>>, data |-> <<>>]

NoResult == [processed |-> 0, queued |-> 0, failed |-> 0, errors |-> <<>>]

\* an invocation of QueueManagerJob.executeJob: b is the index of the batch in
\* hand, published the ids whose sendToQueue call returned in that batch
IdleRun ==
  [pc |-> "idle", currentDate |-> 0, pending |-> <<>>, b |-> 1,
   batch |-> NoResult, result |-> NoResult, published |-> {}]

\* MessageSubscriber.stats and processingTimes after construction and after
\* resetStats; averageProcessingTime is the quotient num / den, successes the
\* durations of the deliveries acked as processed since then (kept for the
\* properties, the program has no such field)
NoStats ==
  [totalProcessed |-> 0, totalSuccessful |-> 0, totalFailed |-> 0,
   lastProcessedAt |-> -1, processingTimes |-> <<>>,
   averageProcessingTime |-> [num |-> 0, den |-> 1], successes |-> <<>>]

\* the process after construction, whatever the store holds
InitProcess ==
  /\ now = 0
  /\ conversations = <<>>
  /\ messages = <<>>
  /\ frames = <<>>
  /\ queue = <<>>
  /\ subscribed = FALSE
  /\ consumerRunning = FALSE
  /\ stats = NoStats
  /\ onlineUsers = OnlineSample
  /\ userInfo = OnlineSample
  /\ sockets = ConnectedSample
  /\ jobRunning = [j \in Jobs |-> FALSE]
  /\ jobStats = [lastExecution |-> -1, totalProcessed |-> 0, totalQueued |-> 0,
                 totalErrors |-> 0, failedAt |-> "none"]
  /\ skipped = [j \in Jobs |-> FALSE]
  /\ pruns = [i \in Slots |-> IdlePlan]
  /\ qruns = [i \in Slots |-> IdleRun]
  /\ isInitialized = FALSE
  /\ cronJob = [j \in Jobs |-> FALSE]
  /\ sends = <<>>
  /\ listener = FALSE
  /\ faults = 0
  /\ foreign = 0

Init ==
  /\ InitProcess
  /\ autoMessages = <<>>
  /\ isConnected = FALSE

\* an external call may fail while the fault budget lasts
CanFail == faults < MaxFaults
Fail == faults' = faults + 1
NoFail == faults' = faults

\* lowest idle invocation slot of a job
FreeSlot(runs, i) == runs[i].pc = "idle" /\ \A j \in Slots : j < i => runs[j].pc # "idle"

\* ------------------------------------------------------------- the clock
\* Time passes; only the instants around a sendDate matter to the pipeline.
ClockTargets ==
  UNION {{autoMessages[i].sendDate - 1, autoMessages[i].sendDate} : i \in DOMAIN autoMessages}

AdvanceClock ==
  /\ \E t \in ClockTargets : t > now /\ now' = t
  /\ UNCHANGED << storeVars, brokerVars, consumerVars, presenceVars, schedulerVars, listener, sends, jobVars, faults, foreign >>

\* ----------------------------------------------------------- the Planner
\* executeJob without its guard: every invocation runs the task body
NeverRunning(job) == FALSE

\* the isRunning guard at the head of executeJob
AlreadyRunning(job) == jobRunning[job]

\* shuffleArray: Fisher-Yates; rnd[i] is the index j drawn for position i
Swap(s, i, j) == [s EXCEPT ![i] = s[j], ![j] = s[i]]

RECURSIVE ShuffleFrom(_, _, _)
ShuffleFrom(s, i, rnd) ==
  IF i <= 1 THEN s ELSE ShuffleFrom(Swap(s, i, rnd[i]), i - 1, rnd)

shuffleArray(array, rnd) == ShuffleFrom(array, Len(array), rnd)

RandomIndexes(n) == {r \in [1..n -> 1..n] : \A i \in 1..n : r[i] <= i}

\* a pairing loop that advances by one: (u1,u2), (u2,u3), ...
createUserPairsOverlapping(list, rnd) ==
  IF Len(list) < 2 THEN <<>>
  ELSE LET shuffledUsers == shuffleArray(list, rnd)
       IN [k \in 1..(Len(shuffledUsers) - 1) |->
             [senderId |-> shuffledUsers[k].id,
              receiverId |-> shuffledUsers[k + 1].id]]

createUserPairs(list, rnd) ==
  IF Len(list) < 2 THEN <<>>
  ELSE LET shuffledUsers == shuffleArray(list, rnd)
       IN [k \in 1..(Len(shuffledUsers) \div 2) |->
             [senderId |-> shuffledUsers[2 * k - 1].id,
              receiverId |-> shuffledUsers[2 * k].id]]

\* Math.random(): the fractions k / 120 of [0, 1)
RandomValues == { [num |-> k, den |-> 120] : k \in 0..119 }

\* Math.floor(Math.random() * n)
floorRandom(r, n) == (r.num * n) \div r.den

\* the hoursToAdd and minutesToAdd generateRandomSendDate can draw
HoursToAdd == { floorRandom(r, 24) + 1 : r \in RandomValues }
MinutesToAdd == { floorRandom(r, 60) : r \in RandomValues }

\* a date built from Math.floor(Math.random() * 24) hours, without the + 1
generateRandomSendDateFromZero(hoursToAdd, minutesToAdd) ==
  now + (hoursToAdd - 1) * 60 + minutesToAdd

\* setHours(getHours() + hoursToAdd), setMinutes(getMinutes() + minutesToAdd)
\* on a copy of now; the clock counts minutes and the zone of the process has
\* a constant offset, so local fields and instants move alike
generateRandomSendDate(hoursToAdd, minutesToAdd) == now + hoursToAdd * 60 + minutesToAdd

getRandomMessageTemplate(randomIndex) == MESSAGE_TEMPLATES[randomIndex]

createAutoMessageData(pairs, tpl, hrs, mins) ==
  [k \in DOMAIN pairs |->
     [senderId |-> pairs[k].senderId,
      receiverId |-> pairs[k].receiverId,
      content |-> getRandomMessageTemplate(tpl[k]),
      sendDate |-> generateRandomSendDate(hrs[k], mins[k])]]

IsActiveUser(u) == u.isActive
getActiveUsers == SelectSeq(users, IsActiveUser)

\* documents insertMany adds: schema defaults isQueued = false, isSent = false,
\* createdAt and updatedAt set by the timestamps option of the schema
insertMany(data) ==
  autoMessages \o
    [k \in DOMAIN data |->
       [id |-> Len(autoMessages) + k,
        senderId |-> data[k].senderId,
        receiverId |-> data[k].receiverId,
        content |-> data[k].content,
        sendDate |-> data[k].sendDate,
        isQueued |-> FALSE,
        isSent |-> FALSE,
        createdAt |-> now,
        updatedAt |-> now]]

\* a cron tick (0 2 * * *) or executeManually() enters executeJob
PlanningExecuteJob(i) ==
  /\ FreeSlot(pruns, i)
  /\ Len(autoMessages) + (Len(getActiveUsers) \div 2) <= MaxPlanned
  /\ IF AlreadyRunning("planning")
     THEN /\ skipped' = [skipped EXCEPT !["planning"] = TRUE]
          /\ UNCHANGED << jobRunning, pruns >>
     ELSE /\ jobRunning' = [jobRunning EXCEPT !["planning"] = TRUE]
          /\ pruns' = [pruns EXCEPT ![i] =
               [pc |-> "getUsers", activeUsers |-> getActiveUsers, data |-> <<>>]]
          /\ UNCHANGED skipped
  /\ UNCHANGED << now, storeVars, brokerVars, consumerVars, presenceVars, schedulerVars, listener, sends,
                  jobStats, qruns, faults, foreign >>

\* the catch / finally of MessagePlanningJob.executeJob
PlanningJobEnds(i) ==
  /\ jobRunning' = [jobRunning EXCEPT !["planning"] = FALSE]
  /\ pruns' = [pruns EXCEPT ![i] = IdlePlan]
  /\ skipped' = [skipped EXCEPT !["planning"] = FALSE]

\* planAutomaticMessages from the reply of User.find to the bulk insert, with
\* the hours and minutes generateRandomSendDate may draw
planAutomaticMessages(i, hours, minutes) ==
  /\ pruns[i].pc = "getUsers"
  /\ \/ /\ CanFail /\ Fail                   \* USER_RETRIEVAL_FAILED
        /\ PlanningJobEnds(i)
     \/ /\ NoFail
        /\ LET activeUsers == pruns[i].activeUsers
           IN IF Len(activeUsers) < 2
              THEN PlanningJobEnds(i)
              ELSE \E rnd \in RandomIndexes(Len(activeUsers)) :
                     LET userPairs == createUserPairs(activeUsers, rnd)
                     IN \E tpl \in [DOMAIN userPairs -> TemplateSamples],
                           hrs \in [DOMAIN userPairs -> hours],
                           mins \in [DOMAIN userPairs -> minutes] :
                          /\ pruns' = [pruns EXCEPT ![i] =
                               [pc |-> "insert",
                                activeUsers |-> activeUsers,
                                data |-> createAutoMessageData(userPairs, tpl, hrs, mins)]]
                          /\ UNCHANGED << jobRunning, skipped >>
  /\ UNCHANGED << now, storeVars, brokerVars, consumerVars, presenceVars, schedulerVars, listener, sends,
                  jobStats, qruns, foreign >>

\* planAutomaticMessages up to the bulk insert
PlanGetActiveUsers(i) == planAutomaticMessages(i, HourSamples, MinuteSamples)

\* saveAutoMessages, and the return through executeJob
PlanSaveAutoMessages(i) ==
  /\ pruns[i].pc = "insert"
  /\ \/ /\ CanFail /\ Fail                   \* AUTO_MESSAGE_SAVE_FAILED
        /\ PlanningJobEnds(i)
        /\ UNCHANGED autoMessages
     \/ /\ NoFail
        /\ autoMessages' = insertMany(pruns[i].data)
        /\ PlanningJobEnds(i)
  /\ UNCHANGED << now, conversations, messages, brokerVars, consumerVars, presenceVars, schedulerVars, listener, sends,
                  jobStats, qruns, foreign >>

\* -------------------------------------------------------- the Dispatcher
\* a query without the sendDate condition
IsPendingAnyDate(am, currentDate) == ~am.isQueued /\ ~am.isSent

\* a query with $lt in place of $lte: a message due exactly now is left out
IsPendingStrict(am, currentDate) == am.sendDate < currentDate /\ ~am.isQueued /\ ~am.isSent

\* AutoMessage.findPendingMessages(currentDate)
IsPending(am, currentDate) == am.sendDate <= currentDate /\ ~am.isQueued /\ ~am.isSent

findPendingMessages(currentDate) ==
  SelectSeq(autoMessages, LAMBDA am : IsPending(am, currentDate))

\* an updateMany with an empty filter: every document is marked
markAsQueuedAll(messageIds) ==
  [k \in DOMAIN autoMessages |->
     [autoMessages[k] EXCEPT !.isQueued = TRUE, !.updatedAt = now]]

\* AutoMessage.markAsQueued(messageIds): updateMany {_id: {$in: ids}} {$set: {isQueued: true}};
\* the timestamps option adds updatedAt to the $set of every update
markAsQueued(messageIds) ==
  [k \in DOMAIN autoMessages |->
     IF autoMessages[k].id \in Range(messageIds)
     THEN [autoMessages[k] EXCEPT !.isQueued = TRUE, !.updatedAt = now]
     ELSE autoMessages[k]]

\* an update that matches no document
markAsSentNone(messageId) == autoMessages

\* an update that replaces the flags: {$set: {isSent: true, isQueued: false}}
markAsSentUnqueued(messageId) ==
  [k \in DOMAIN autoMessages |->
     IF autoMessages[k].id = messageId
     THEN [autoMessages[k] EXCEPT !.isSent = TRUE, !.isQueued = FALSE, !.updatedAt = now]
     ELSE autoMessages[k]]

\* AutoMessage.markAsSent(messageId): findByIdAndUpdate {$set: {isSent: true}}
markAsSent(messageId) ==
  [k \in DOMAIN autoMessages |->
     IF autoMessages[k].id = messageId
     THEN [autoMessages[k] EXCEPT !.isSent = TRUE, !.updatedAt = now]
     ELSE autoMessages[k]]

createBatches(list, batchSize) ==
  [n \in 1..((Len(list) + batchSize - 1) \div batchSize) |->
     Slice(list, (n - 1) * batchSize, n * batchSize)]

\* the envelope processBatch builds for one pending message
QueueMessage(message) ==
  [autoMessageId |-> message.id,
   senderId |-> message.senderId,
   receiverId |-> message.receiverId,
   content |-> message.content,
   originalSendDate |-> message.sendDate,
   queuedAt |-> now]

\* a frame as the broker holds it; parent is the frame it was republished
\* from, wasOnline whether the receiver was in the presence set when
\* sendNotificationIfOnline asked, notified whether message_received was emitted
NewFrame(payload, header, parent) ==
  [payload |-> payload, header |-> header, parent |-> parent,
   st |-> "ready", pc |-> "none", conv |-> 0, msg |-> 0,
   result |-> "none",
   acks |-> 0, nacks |-> 0, failedEmitted |-> FALSE, notified |-> FALSE,
   wasOnline |-> FALSE]

\* const successfulIds = messageIds.slice(0, result.queued)
successfulIds(messageIds, queued) == Slice(messageIds, 0, queued)

\* a cron tick (* * * * *) or executeManually() enters executeJob;
\* currentDate is read before the query is awaited
QueueExecuteJob(i) ==
  /\ FreeSlot(qruns, i)
  /\ IF AlreadyRunning("queue")
     THEN /\ skipped' = [skipped EXCEPT !["queue"] = TRUE]
          /\ UNCHANGED << jobRunning, qruns >>
     ELSE /\ jobRunning' = [jobRunning EXCEPT !["queue"] = TRUE]
          /\ qruns' = [qruns EXCEPT ![i] = [@ EXCEPT !.pc = "find", !.currentDate = now]]
          /\ UNCHANGED skipped
  /\ UNCHANGED << now, storeVars, brokerVars, consumerVars, presenceVars, schedulerVars, listener, sends,
                  jobStats, pruns, faults, foreign >>

\* an executeJob that remembers a skipped invocation and runs it when the
\* current run returns
QueueJobCompletesDeferred(i, run) ==
  /\ jobStats' = [lastExecution |-> now,
                  totalProcessed |-> jobStats.totalProcessed + run.result.processed,
                  totalQueued |-> jobStats.totalQueued + run.result.queued,
                  totalErrors |-> jobStats.totalErrors + run.result.failed,
                  failedAt |-> jobStats.failedAt]
  /\ IF skipped["queue"]
     THEN /\ qruns' = [qruns EXCEPT ![i] = [IdleRun EXCEPT !.pc = "find", !.currentDate = now]]
          /\ UNCHANGED jobRunning
     ELSE /\ qruns' = [qruns EXCEPT ![i] = IdleRun]
          /\ jobRunning' = [jobRunning EXCEPT !["queue"] = FALSE]
  /\ skipped' = [skipped EXCEPT !["queue"] = FALSE]

\* processPendingMessages returns its result to executeJob
QueueJobCompletes(i, run) ==
  /\ jobStats' = [lastExecution |-> now,
                  totalProcessed |-> jobStats.totalProcessed + run.result.processed,
                  totalQueued |-> jobStats.totalQueued + run.result.queued,
                  totalErrors |-> jobStats.totalErrors + run.result.failed,
                  failedAt |-> jobStats.failedAt]
  /\ jobRunning' = [jobRunning EXCEPT !["queue"] = FALSE]
  /\ qruns' = [qruns EXCEPT ![i] = IdleRun]
  /\ skipped' = [skipped EXCEPT !["queue"] = FALSE]

\* an executeJob without its finally block: isRunning stays set after a throw
QueueJobFailsStuck(i) ==
  /\ jobStats' = [jobStats EXCEPT !.totalErrors = @ + 1, !.failedAt = qruns[i].pc]
  /\ qruns' = [qruns EXCEPT ![i] = IdleRun]
  /\ UNCHANGED << jobRunning, skipped >>

\* a catch block that does not count the failed run
QueueJobFailsUncounted(i) ==
  /\ jobStats' = [jobStats EXCEPT !.failedAt = qruns[i].pc]
  /\ jobRunning' = [jobRunning EXCEPT !["queue"] = FALSE]
  /\ qruns' = [qruns EXCEPT ![i] = IdleRun]
  /\ skipped' = [skipped EXCEPT !["queue"] = FALSE]

\* processPendingMessages throws QUEUE_PROCESSING_ERROR into executeJob's catch
QueueJobFails(i) ==
  /\ jobStats' = [jobStats EXCEPT !.totalErrors = @ + 1, !.failedAt = qruns[i].pc]
  /\ jobRunning' = [jobRunning EXCEPT !["queue"] = FALSE]
  /\ qruns' = [qruns EXCEPT ![i] = IdleRun]
  /\ skipped' = [skipped EXCEPT !["queue"] = FALSE]

PendingIds(run) == {run.pending[k].id : k \in DOMAIN run.pending}

\* processBatch from its first line to the await of markAsQueued: the
\* envelopes of batch run.b are published one after the other (sendToQueue
\* does not suspend); sent[m] is whether sendToQueue succeeded for the
\* PlannedMessage with id m
publishBatch(run, sent) ==
  LET batch == createBatches(run.pending, BatchSize)[run.b]
      positions == [k \in 1..Len(batch) |-> k]
      okIdx == SelectSeq(positions, LAMBDA k : sent[batch[k].id])
      badIdx == SelectSeq(positions, LAMBDA k : ~sent[batch[k].id])
  IN [run |-> [run EXCEPT
                 !.batch = [processed |-> Len(batch),
                            queued |-> Len(okIdx),
                            failed |-> Len(badIdx),
                            errors |-> [j \in DOMAIN badIdx |->
                                          [kind |-> "queue", id |-> batch[badIdx[j]].id]]],
                 !.published = {batch[okIdx[j]].id : j \in DOMAIN okIdx}],
      out |-> [j \in DOMAIN okIdx |-> Stringify(QueueMessage(batch[okIdx[j]]))],
      fails |-> Len(badIdx)]

\* a loop that adds only the queued count of a batch to the result
endBatchQueuedOnly(run) == [run EXCEPT !.result.queued = @ + run.batch.queued]

\* processPendingMessages adds the result of a batch to its own
endBatch(run) ==
  [run EXCEPT !.result.queued = @ + run.batch.queued,
              !.result.failed = @ + run.batch.failed,
              !.result.errors = @ \o run.batch.errors]

LastBatch(run) == run.b >= Len(createBatches(run.pending, BatchSize))

\* the loop over the batches from batch run.b on, up to the next await
\* (markAsQueued of a batch that queued something) or to the return
RECURSIVE processBatches(_, _)
processBatches(run, sent) ==
  LET p == publishBatch(run, sent)
  IN IF p.run.batch.queued > 0
     THEN [run |-> [p.run EXCEPT !.pc = "mark"], out |-> p.out,
           fails |-> p.fails, returned |-> FALSE]
     ELSE IF LastBatch(run)
          THEN [run |-> endBatch(p.run), out |-> <<>>, fails |-> p.fails, returned |-> TRUE]
          ELSE LET rest == processBatches([endBatch(p.run) EXCEPT !.b = @ + 1], sent)
               IN [rest EXCEPT !.fails = @ + p.fails]

\* the invocation runs on from batch run.b; failed is the number of calls
\* that failed in this step before the loop
QueueResume(i, run, failed) ==
  \E sent \in [PendingIds(run) -> BOOLEAN] :
    LET r == processBatches(run, sent)
    IN /\ faults + failed + r.fails <= MaxFaults
       /\ faults' = faults + failed + r.fails
       /\ frames' = frames \o [j \in DOMAIN r.out |-> NewFrame(r.out[j], NoHeader, 0)]
       /\ queue' = queue \o [j \in DOMAIN r.out |-> Len(frames) + j]
       /\ IF r.returned
          THEN QueueJobCompletes(i, r.run)
          ELSE /\ qruns' = [qruns EXCEPT ![i] = r.run]
               /\ UNCHANGED << jobStats, jobRunning, skipped >>

\* the query of findPendingMessages resolves; with an active connection
\* ensureRabbitMQConnection does not suspend and the first batch is published
QueueFindPending(i) ==
  /\ qruns[i].pc = "find"
  /\ \/ /\ CanFail /\ Fail
        /\ QueueJobFails(i)
        /\ UNCHANGED << frames, queue >>
     \/ LET pendingMessages == findPendingMessages(qruns[i].currentDate)
            run == [qruns[i] EXCEPT !.pending = pendingMessages,
                                    !.result.processed = Len(pendingMessages)]
        IN IF Len(pendingMessages) = 0
           THEN /\ NoFail
                /\ QueueJobCompletes(i, run)
                /\ UNCHANGED << frames, queue >>
           ELSE IF isConnected
                THEN QueueResume(i, run, 0)
                ELSE /\ NoFail
                     /\ qruns' = [qruns EXCEPT ![i] = [run EXCEPT !.pc = "connect"]]
                     /\ UNCHANGED << frames, queue, jobStats, jobRunning, skipped >>
  /\ UNCHANGED << now, storeVars, isConnected, consumerVars, presenceVars, schedulerVars, listener, sends, pruns, foreign >>

\* ensureRabbitMQConnection: the await of rabbitmqConfig.connect() resolves or rejects
QueueEnsureConnection(i) ==
  /\ qruns[i].pc = "connect"
  /\ \/ /\ isConnected' = TRUE
        /\ QueueResume(i, qruns[i], 0)
     \/ /\ ~isConnected
        /\ CanFail /\ Fail
        /\ QueueJobFails(i)
        /\ UNCHANGED << frames, queue, isConnected >>
  /\ UNCHANGED << now, storeVars, consumerVars, presenceVars, schedulerVars, listener, sends, pruns, foreign >>

\* the successfulIds processBatch passes to markAsQueued for the batch in hand
idsToMark(run) ==
  LET batch == createBatches(run.pending, BatchSize)[run.b]
      messageIds == [k \in DOMAIN batch |-> batch[k].id]
  IN successfulIds(messageIds, run.batch.queued)

\* the await of AutoMessage.markAsQueued(successfulIds) resolves or rejects
\* (a rejection is logged and added to errors); the loop goes on
QueueMarkAsQueued(i) ==
  /\ qruns[i].pc = "mark"
  /\ LET ids == idsToMark(qruns[i])
         run == qruns[i]
     IN \E rejected \in BOOLEAN :
          LET after == IF rejected
                       THEN [run EXCEPT !.batch.errors = @ \o << [kind |-> "status", id |-> 0] >>]
                       ELSE run
              failed == IF rejected THEN 1 ELSE 0
          IN /\ rejected => CanFail
             /\ autoMessages' = IF rejected THEN autoMessages ELSE markAsQueued(ids)
             /\ IF LastBatch(after)
                THEN /\ faults' = faults + failed
                     /\ QueueJobCompletes(i, endBatch(after))
                     /\ UNCHANGED << frames, queue >>
                ELSE QueueResume(i, [endBatch(after) EXCEPT !.b = @ + 1], failed)
  /\ UNCHANGED << now, conversations, messages, isConnected, consumerVars, presenceVars, schedulerVars, listener, sends,
                  pruns, foreign >>

\* ---------------------------------------------------------- the Consumer
\* MessageSubscriber.start
StartConsumer ==
  /\ ~consumerRunning
  /\ \/ /\ NoFail
        /\ isConnected' = TRUE
        /\ subscribed' = TRUE
        /\ consumerRunning' = TRUE
     \/ /\ ~isConnected
        /\ CanFail /\ Fail
        /\ UNCHANGED << isConnected, subscribed, consumerRunning >>
  /\ UNCHANGED << now, storeVars, frames, queue, stats, presenceVars, schedulerVars, listener, sends, jobVars, foreign >>

\* MessageSubscriber.stop: the flag is cleared; the callback registered by
\* channel.consume stays registered
StopConsumer ==
  /\ consumerRunning
  /\ consumerRunning' = FALSE
  /\ UNCHANGED << now, storeVars, brokerVars, subscribed, stats, presenceVars, schedulerVars, listener, sends, jobVars,
                  faults, foreign >>

\* MessageSubscriber.resetStats
ResetStats ==
  /\ stats' = NoStats
  /\ UNCHANGED << now, storeVars, brokerVars, subscribed, consumerRunning, presenceVars, schedulerVars, listener, sends,
                  jobVars, faults, foreign >>

\* messageSubscriber.on(CONSUMER_EVENTS.MESSAGE_PROCESSED, ...): the
\* subscriber is an EventEmitter, and the listener may throw when called
OnMessageProcessed ==
  /\ ~listener
  /\ listener' = TRUE
  /\ UNCHANGED << now, storeVars, brokerVars, consumerVars, presenceVars, schedulerVars,
                  sends, jobVars, faults, foreign >>

\* another publisher puts a frame on message_sending_queue
ForeignPublish ==
  /\ foreign < MaxForeign
  /\ foreign' = foreign + 1
  /\ \E payload \in {Garbage} \cup {Stringify(e) : e \in ForeignEnvelopes},
        header \in ForeignHeaders :
       /\ frames' = Append(frames, NewFrame(payload, header, 0))
       /\ queue' = Append(queue, Len(frames) + 1)
  /\ UNCHANGED << now, storeVars, isConnected, consumerVars, presenceVars, schedulerVars, listener, sends, jobVars, faults >>

\* another publisher puts one of the given envelopes on the queue
PublishFrom(envelopes) ==
  /\ foreign < MaxForeign
  /\ foreign' = foreign + 1
  /\ \E envelope \in envelopes, header \in ForeignHeaders :
       /\ frames' = Append(frames, NewFrame(Stringify(envelope), header, 0))
       /\ queue' = Append(queue, Len(frames) + 1)
  /\ UNCHANGED << now, storeVars, isConnected, consumerVars, presenceVars, schedulerVars, listener, sends,
                  jobVars, faults >>

\* a publisher puts two of the given envelopes on the queue back to back, as
\* processBatch does for two due PlannedMessages of one batch
PublishTwoFrom(envelopes) ==
  /\ foreign < MaxForeign
  /\ foreign' = foreign + 1
  /\ \E first \in envelopes, second \in envelopes :
       /\ first # second
       /\ frames' = frames \o << NewFrame(Stringify(first), NoHeader, 0),
                                 NewFrame(Stringify(second), NoHeader, 0) >>
       /\ queue' = queue \o << Len(frames) + 1, Len(frames) + 2 >>
  /\ UNCHANGED << now, storeVars, isConnected, consumerVars, presenceVars, schedulerVars, listener, sends,
                  jobVars, faults >>

\* the envelope of a queued PlannedMessage arrives, at any position of its
\* retry chain
PublishQueued ==
  /\ foreign < MaxForeign
  /\ foreign' = foreign + 1
  /\ \E k \in DOMAIN autoMessages, header \in ForeignHeaders :
       /\ autoMessages[k].isQueued
       /\ frames' = Append(frames, NewFrame(Stringify(QueueMessage(autoMessages[k])), header, 0))
       /\ queue' = Append(queue, Len(frames) + 1)
  /\ UNCHANGED << now, storeVars, isConnected, consumerVars, presenceVars, schedulerVars, listener, sends,
                  jobVars, faults >>

\* Types.ObjectId.isValid: ill-formed ids are the numbers below 1
IsValidObjectId(id) == id >= 1

\* validateQueueMessage: the error code it throws, or "ok"
validateQueueMessage(queueMessage) ==
  IF ~IsValidObjectId(queueMessage.autoMessageId) THEN "INVALID_AUTO_MESSAGE_ID"
  ELSE IF ~IsValidObjectId(queueMessage.senderId) THEN "INVALID_SENDER_ID"
  ELSE IF ~IsValidObjectId(queueMessage.receiverId) THEN "INVALID_RECEIVER_ID"
  ELSE IF Len(Trim(queueMessage.content)) = 0 THEN "EMPTY_CONTENT"
  ELSE IF Len(queueMessage.content) > ContentMax THEN "CONTENT_TOO_LONG"
  ELSE IF queueMessage.senderId = queueMessage.receiverId THEN "SAME_SENDER_RECEIVER"
  ELSE "ok"

\* User.findById
findUserById(id) == SelectSeq(users, LAMBDA u : u.id = id)

\* a check that only looks for the two documents
validateUsersExist(senderId, receiverId) ==
  LET sender == findUserById(senderId)
      receiver == findUserById(receiverId)
  IN IF sender = <<>> THEN "SENDER_NOT_FOUND"
     ELSE IF receiver = <<>> THEN "RECEIVER_NOT_FOUND"
     ELSE "ok"

\* validateUsers: the error code it throws, or "ok"
validateUsers(senderId, receiverId) ==
  LET sender == findUserById(senderId)
      receiver == findUserById(receiverId)
  IN IF sender = <<>> THEN "SENDER_NOT_FOUND"
     ELSE IF receiver = <<>> THEN "RECEIVER_NOT_FOUND"
     ELSE IF ~sender[1].isActive THEN "SENDER_INACTIVE"
     ELSE IF ~receiver[1].isActive THEN "RECEIVER_INACTIVE"
     ELSE "ok"

\* a lookup that matches the participants array in the order given
findConversationOrdered(senderId, receiverId) ==
  SelectSeq(conversations, LAMBDA c : c.participants = << senderId, receiverId >>)

\* Conversation.findOne({participants: {$all: [senderId, receiverId]}}):
\* the matching conversations, oldest first
findConversation(senderId, receiverId) ==
  SelectSeq(conversations,
            LAMBDA c : {senderId, receiverId} \subseteq Range(c.participants))

\* a comparison that lets a frame with x-retry-count = retryAttempts retry once more
ShouldRetryInclusive(header) == retryCount(header) <= RetryAttempts

\* retryCount < this.config.retryAttempts
ShouldRetry(header) == retryCount(header) < RetryAttempts

\* a republish that carries the old count
sameRetryCount(header) == retryCount(header)

\* 'x-retry-count': retryCount + 1
nextRetryCount(header) == retryCount(header) + 1

\* a failure path that returns without arming the timer and without nack
abandonFrame(frame) == [frame EXCEPT !.pc = "none", !.result = "failure"]

\* handleProcessingFailure up to its return: the retry timer is armed, or the
\* frame is rejected and MESSAGE_FAILED emitted
handleProcessingFailure(frame) ==
  IF ShouldRetry(frame.header)
  THEN [frame EXCEPT !.st = "timer", !.pc = "none", !.result = "failure"]
  ELSE [frame EXCEPT !.st = "done", !.pc = "none", !.result = "failure",
                     !.nacks = @ + 1, !.failedEmitted = TRUE]

\* a failure counted in totalFailed only
updateFailureStatsUncounted == [stats EXCEPT !.totalFailed = @ + 1]

updateFailureStats ==
  [stats EXCEPT !.totalProcessed = @ + 1, !.totalFailed = @ + 1]

\* a window that drops the newest entry when it is full
WindowDropNewest(times) == IF Len(times) > 100 THEN SubSeq(times, 1, 100) ELSE times

\* this.processingTimes.push(t); if (length > 100) shift()
Window(times) == IF Len(times) > 100 THEN Tail(times) ELSE times

\* processingTimes.reduce((sum, time) => sum + time, 0)
RECURSIVE Sum(_)
Sum(times) == IF times = <<>> THEN 0 ELSE Head(times) + Sum(Tail(times))

\* reduce(...) / processingTimes.length
Mean(times) == [num |-> Sum(times), den |-> Len(times)]

updateSuccessStats(processingTime) ==
  LET window == Window(Append(stats.processingTimes, processingTime))
  IN [stats EXCEPT !.totalProcessed = @ + 1,
                   !.totalSuccessful = @ + 1,
                   !.lastProcessedAt = now,
                   !.processingTimes = window,
                   !.averageProcessingTime = Mean(window),
                   !.successes = Append(@, processingTime)]

\* the failure branch and the catch of handleMessage
Failure(f, frame) ==
  /\ frames' = [frames EXCEPT ![f] = handleProcessingFailure(frame)]
  /\ stats' = updateFailureStats

\* frames delivered and not settled yet
Unsettled == {g \in DOMAIN frames : frames[g].st \in {"handling", "timer"}}

\* the broker delivers the oldest frame: handleMessage parses it and
\* processQueueMessage runs validateQueueMessage, up to the await in validateUsers
HandleMessage(f) ==
  /\ subscribed
  /\ queue # <<>> /\ f = Head(queue)
  /\ Cardinality(Unsettled) < Prefetch
  /\ queue' = Tail(queue)
  /\ LET frame == [frames[f] EXCEPT !.st = "handling"]
     IN IF ~Parses(frame.payload)
        THEN Failure(f, frame)
        ELSE IF validateQueueMessage(Parse(frame.payload)) # "ok"
             THEN Failure(f, frame)
             ELSE /\ frames' = [frames EXCEPT ![f] = [frame EXCEPT !.pc = "validateUsers"]]
                  /\ UNCHANGED stats
  /\ UNCHANGED << now, storeVars, isConnected, subscribed, consumerRunning, presenceVars, schedulerVars, listener, sends,
                  jobVars, faults, foreign >>

\* validateUsers: the two User.findById calls resolve or reject
UsersLoaded(f) ==
  /\ frames[f].pc = "validateUsers"
  /\ \/ /\ CanFail /\ Fail
        /\ Failure(f, frames[f])
     \/ /\ NoFail
        /\ LET queueMessage == Parse(frames[f].payload)
           IN IF validateUsers(queueMessage.senderId, queueMessage.receiverId) # "ok"
              THEN Failure(f, frames[f])
              ELSE /\ frames' = [frames EXCEPT ![f] = [@ EXCEPT !.pc = "findConv"]]
                   /\ UNCHANGED stats
  /\ UNCHANGED << now, storeVars, queue, isConnected, subscribed, consumerRunning,
                  presenceVars, schedulerVars, listener, sends, jobVars, foreign >>

\* createOrFindConversation: the findOne resolves
FindConversation(f) ==
  /\ frames[f].pc = "findConv"
  /\ \/ /\ CanFail /\ Fail
        /\ Failure(f, frames[f])
     \/ /\ NoFail
        /\ LET queueMessage == Parse(frames[f].payload)
               existing == findConversation(queueMessage.senderId, queueMessage.receiverId)
           IN frames' = [frames EXCEPT ![f] =
                IF existing # <<>>
                THEN [@ EXCEPT !.conv = existing[1].id, !.pc = "createMsg"]
                ELSE [@ EXCEPT !.pc = "saveConv"]]
        /\ UNCHANGED stats
  /\ UNCHANGED << now, storeVars, queue, isConnected, subscribed, consumerRunning,
                  presenceVars, schedulerVars, listener, sends, jobVars, foreign >>

\* a Conversation document as the schema creates it: no lastMessage,
\* updatedAt set by the timestamps option
NewConversation(participants) ==
  [id |-> Len(conversations) + 1, participants |-> participants,
   lastMessage |-> <<>>, updatedAt |-> now]

\* createOrFindConversation: newConversation.save() resolves
SaveConversation(f) ==
  /\ frames[f].pc = "saveConv"
  /\ LET queueMessage == Parse(frames[f].payload)
         participants == << queueMessage.senderId, queueMessage.receiverId >>
     IN \/ /\ CanFail /\ Fail
           /\ Failure(f, frames[f])
           /\ UNCHANGED conversations
        \/ /\ NoFail
           /\ IF participants[1] = participants[2]     \* pre('validate') hook
              THEN Failure(f, frames[f]) /\ UNCHANGED conversations
              ELSE /\ conversations' = Append(conversations,
                         NewConversation(participants))
                   /\ frames' = [frames EXCEPT ![f] =
                         [@ EXCEPT !.conv = Len(conversations) + 1, !.pc = "createMsg"]]
                   /\ UNCHANGED stats
  /\ UNCHANGED << now, autoMessages, messages, queue, isConnected, subscribed,
                  consumerRunning, presenceVars, schedulerVars, listener, sends, jobVars, foreign >>

\* the document createMessage saves; autoMessageId records the envelope it
\* was created from (the collection itself does not keep it)
NewMessage(conversationId, queueMessage) ==
  [id |-> Len(messages) + 1,
   conversationId |-> conversationId,
   senderId |-> queueMessage.senderId,
   content |-> Trim(queueMessage.content),
   isRead |-> FALSE,
   createdAt |-> now,
   autoMessageId |-> queueMessage.autoMessageId]

\* a createMessage that swallows a rejected save and lets processing go on
SaveMessageSwallowed(f) ==
  /\ frames[f].pc = "createMsg"
  /\ LET created == NewMessage(frames[f].conv, Parse(frames[f].payload))
     IN \/ /\ CanFail /\ Fail
           /\ frames' = [frames EXCEPT ![f] = [@ EXCEPT !.pc = "markSent"]]
           /\ UNCHANGED << messages, stats >>
        \/ /\ NoFail
           /\ messages' = Append(messages, created)
           /\ frames' = [frames EXCEPT ![f] = [@ EXCEPT !.msg = created.id, !.pc = "populate"]]
           /\ UNCHANGED stats
  /\ UNCHANGED << now, autoMessages, conversations, queue, isConnected, subscribed,
                  consumerRunning, presenceVars, schedulerVars, listener, sends, jobVars, foreign >>

\* createMessage: message.save() resolves or rejects
SaveMessage(f) ==
  /\ frames[f].pc = "createMsg"
  /\ LET created == NewMessage(frames[f].conv, Parse(frames[f].payload))
     IN \/ /\ CanFail /\ Fail
           /\ Failure(f, frames[f])
           /\ UNCHANGED messages
        \/ /\ NoFail
           /\ messages' = Append(messages, created)
           /\ frames' = [frames EXCEPT ![f] = [@ EXCEPT !.msg = created.id, !.pc = "populate"]]
           /\ UNCHANGED stats
  /\ UNCHANGED << now, autoMessages, conversations, queue, isConnected, subscribed,
                  consumerRunning, presenceVars, schedulerVars, listener, sends, jobVars, foreign >>

\* a createMessage whose caller emits the notification next and updates the
\* PlannedMessage after it (the order of MessageProcessingFlow)
PopulateMessageThenNotify(f) ==
  /\ frames[f].pc = "populate"
  /\ \/ /\ CanFail /\ Fail
        /\ Failure(f, frames[f])
     \/ /\ NoFail
        /\ frames' = [frames EXCEPT ![f] = [@ EXCEPT !.result = "success", !.pc = "notify"]]
        /\ UNCHANGED stats
  /\ UNCHANGED << now, storeVars, queue, isConnected, subscribed, consumerRunning,
                  presenceVars, schedulerVars, listener, sends, jobVars, foreign >>

\* createMessage: message.populate() resolves or rejects; a rejection is
\* rethrown with the saved document left in the collection
PopulateMessage(f) ==
  /\ frames[f].pc = "populate"
  /\ \/ /\ CanFail /\ Fail
        /\ Failure(f, frames[f])
     \/ /\ NoFail
        /\ frames' = [frames EXCEPT ![f] = [@ EXCEPT !.pc = "markSent"]]
        /\ UNCHANGED stats
  /\ UNCHANGED << now, storeVars, queue, isConnected, subscribed, consumerRunning,
                  presenceVars, schedulerVars, listener, sends, jobVars, foreign >>

\* an updateAutoMessageStatus that throws when markAsSent finds no document
UpdateAutoMessageStatusStrict(f) ==
  /\ frames[f].pc = "markSent"
  /\ LET id == Parse(frames[f].payload).autoMessageId
         found == \E k \in DOMAIN autoMessages : autoMessages[k].id = id
     IN \/ /\ NoFail
           /\ autoMessages' = markAsSent(id)
           /\ IF found
              THEN /\ frames' = [frames EXCEPT ![f] =
                         [@ EXCEPT !.result = "success", !.pc = "notify"]]
                   /\ UNCHANGED stats
              ELSE Failure(f, frames[f])
        \/ /\ CanFail /\ Fail
           /\ UNCHANGED << autoMessages, stats >>
           /\ frames' = [frames EXCEPT ![f] = [@ EXCEPT !.result = "success", !.pc = "notify"]]
  /\ UNCHANGED << now, conversations, messages, queue, isConnected, subscribed,
                  consumerRunning, presenceVars, schedulerVars, listener, sends, jobVars, foreign >>

\* updateAutoMessageStatus: a rejected markAsSent is logged and swallowed, a
\* missing PlannedMessage is logged; processQueueMessage returns success
UpdateAutoMessageStatus(f) ==
  /\ frames[f].pc = "markSent"
  /\ \/ /\ NoFail
        /\ autoMessages' = markAsSent(Parse(frames[f].payload).autoMessageId)
     \/ /\ CanFail /\ Fail
        /\ UNCHANGED autoMessages
  /\ frames' = [frames EXCEPT ![f] = [@ EXCEPT !.result = "success", !.pc = "notify"]]
  /\ UNCHANGED << now, conversations, messages, queue, isConnected, consumerVars,
                  presenceVars, schedulerVars, listener, sends, jobVars, foreign >>

\* handleMessage after sendNotificationIfOnline has returned: channel.ack,
\* updateSuccessStats and the MESSAGE_PROCESSED event; a listener that throws
\* sends the acked frame through the catch block into handleProcessingFailure
Acknowledge(f, frame, notified) ==
  LET acked == [frame EXCEPT !.notified = notified, !.acks = @ + 1, !.st = "done",
                             !.pc = "none"]
  IN \E processingTime \in ProcessingTimeSamples :
       \/ /\ frames' = [frames EXCEPT ![f] = acked]
          /\ stats' = updateSuccessStats(processingTime)
       \/ /\ listener                \* emit() rethrows what a listener throws
          /\ frames' = [frames EXCEPT ![f] = handleProcessingFailure(acked)]
          /\ stats' = [updateSuccessStats(processingTime) EXCEPT
                         !.totalProcessed = @ + 1, !.totalFailed = @ + 1]

\* sendNotificationIfOnline: userStatusService.isUserOnline resolves or
\* rejects; the function catches its own errors
IsUserOnline(f) ==
  /\ frames[f].pc = "notify"
  /\ LET isOnline == Parse(frames[f].payload).receiverId \in onlineUsers
         asked == [frames[f] EXCEPT !.wasOnline = isOnline]
     IN \/ /\ CanFail /\ Fail
           /\ Acknowledge(f, asked, FALSE)
        \/ /\ NoFail
           /\ IF isOnline
              THEN /\ frames' = [frames EXCEPT ![f] = [asked EXCEPT !.pc = "loadMessage"]]
                   /\ UNCHANGED stats
              ELSE Acknowledge(f, asked, FALSE)
  /\ UNCHANGED << now, storeVars, queue, isConnected, subscribed, consumerRunning,
                  presenceVars, schedulerVars, listener, sends, jobVars, foreign >>

\* the binding socketService that the subscriber imports by name from
\* socket/socket.service: that module exports SocketService, getSocketService
\* and initializeSocketService, and no socketService
socketServiceDefined == FALSE

\* sendNotificationIfOnline: Message.findById(...).populate resolves or
\* rejects; socketService.emitToUser emits message_received to the receiver's
\* room, or throws into the function's own catch when socketService is undefined
SendNotification(f) ==
  /\ frames[f].pc = "loadMessage"
  /\ \/ /\ CanFail /\ Fail
        /\ Acknowledge(f, frames[f], FALSE)
     \/ /\ NoFail
        /\ Acknowledge(f, frames[f], socketServiceDefined /\ frames[f].msg \in DOMAIN messages)
  /\ UNCHANGED << now, storeVars, queue, isConnected, subscribed, consumerRunning,
                  presenceVars, schedulerVars, listener, sends, jobVars, foreign >>

\* a timer callback that acks the frame in its catch block
RetryTimerFiresAcks(f) ==
  /\ frames[f].st = "timer"
  /\ \/ /\ NoFail
        /\ frames' = Append([frames EXCEPT ![f] = [@ EXCEPT !.acks = @ + 1, !.st = "done"]],
                            NewFrame(frames[f].payload,
                                     << nextRetryCount(frames[f].header) >>, f))
        /\ queue' = Append(queue, Len(frames) + 1)
     \/ /\ CanFail /\ Fail
        /\ frames' = [frames EXCEPT ![f] = [@ EXCEPT !.acks = @ + 1, !.st = "done"]]
        /\ UNCHANGED queue
  /\ UNCHANGED << now, storeVars, isConnected, consumerVars, presenceVars, schedulerVars, listener, sends, jobVars, foreign >>

\* the setTimeout callback of handleProcessingFailure: republish with
\* x-retry-count + 1 and ack, or nack when the publish throws
RetryTimerFires(f) ==
  /\ frames[f].st = "timer"
  /\ \/ /\ NoFail
        /\ frames' = Append([frames EXCEPT ![f] = [@ EXCEPT !.acks = @ + 1, !.st = "done"]],
                            NewFrame(frames[f].payload,
                                     << nextRetryCount(frames[f].header) >>, f))
        /\ queue' = Append(queue, Len(frames) + 1)
     \/ /\ CanFail /\ Fail
        /\ frames' = [frames EXCEPT ![f] = [@ EXCEPT !.nacks = @ + 1, !.st = "done"]]
        /\ UNCHANGED queue
  /\ UNCHANGED << now, storeVars, isConnected, consumerVars, presenceVars, schedulerVars, listener, sends, jobVars, foreign >>

\* ------------------------------------------------- the transport layer
\* RedisClient holds one connection (new Redis(config), a singleton): the
\* server runs the commands in the order the client wrote them and the
\* replies come back in that order.  issued is the number of first commands
\* answered so far, and so the place of the command written on that reply.
issued == Len(sockets) + Cardinality({ s \in DOMAIN sockets : ~sockets[s].open })

\* the second commands written and not yet answered, as places in the queue
pendingCommands ==
  { sockets[s].onSeq : s \in { t \in DOMAIN sockets : sockets[t].on = "setex" } }
    \cup { sockets[s].offSeq : s \in { t \in DOMAIN sockets : sockets[t].off = "del" } }

\* the command at this place is the next one the connection answers
nextReply(seq) == \A other \in pendingCommands : seq <= other

\* a socket connects: handleConnection, handleUserOnline and setUserOnline up
\* to the reply of redis.sadd
Connect(userId) ==
  /\ Len(sockets) < Len(ConnectedSample) + MaxSockets
  /\ \/ /\ NoFail
        /\ onlineUsers' = onlineUsers \cup {userId}
        /\ sockets' = Append(sockets,
             [NewSocket(userId) EXCEPT
                !.onSeq = issued + 1,
                !.overlapped = \E t \in DOMAIN sockets :
                                 sockets[t].user = userId /\ sockets[t].off = "del"])
     \/ /\ CanFail /\ Fail
        /\ sockets' = Append(sockets, [NewSocket(userId) EXCEPT !.on = "saddFailed"])
        /\ UNCHANGED onlineUsers
  /\ UNCHANGED << now, storeVars, brokerVars, consumerVars, userInfo, jobVars, schedulerVars, listener, sends, foreign >>

\* the reply of redis.setex answered out of turn
SetUserInfoUnordered(s) ==
  /\ sockets[s].on = "setex"
  /\ \/ /\ NoFail
        /\ userInfo' = userInfo \cup {sockets[s].user}
        /\ sockets' = [sockets EXCEPT ![s].on = "done"]
     \/ /\ CanFail /\ Fail
        /\ sockets' = [sockets EXCEPT ![s].on = "setexFailed"]
        /\ UNCHANGED userInfo
  /\ UNCHANGED << now, storeVars, brokerVars, consumerVars, onlineUsers, jobVars, schedulerVars, listener, sends, foreign >>

\* setUserOnline: the reply of redis.setex for user_info:{id}
SetUserInfo(s) ==
  /\ sockets[s].on = "setex"
  /\ nextReply(sockets[s].onSeq)
  /\ \/ /\ NoFail
        /\ userInfo' = userInfo \cup {sockets[s].user}
        /\ sockets' = [sockets EXCEPT ![s].on = "done"]
     \/ /\ CanFail /\ Fail
        /\ sockets' = [sockets EXCEPT ![s].on = "setexFailed"]
        /\ UNCHANGED userInfo
  /\ UNCHANGED << now, storeVars, brokerVars, consumerVars, onlineUsers, jobVars, schedulerVars, listener, sends, foreign >>

\* the 'disconnect' event of a socket: handleUserOffline and setUserOffline
\* up to the reply of redis.srem
Disconnect(s) ==
  /\ sockets[s].open
  /\ \/ /\ NoFail
        /\ onlineUsers' = onlineUsers \ {sockets[s].user}
        /\ sockets' = [sockets EXCEPT
             ![s].open = FALSE, ![s].off = "del", ![s].offSeq = issued + 1,
             ![s].overlapped = @ \/ \E t \in DOMAIN sockets :
                                      sockets[t].user = sockets[s].user
                                        /\ sockets[t].on = "setex"]
     \/ /\ CanFail /\ Fail
        /\ sockets' = [sockets EXCEPT ![s].open = FALSE, ![s].off = "sremFailed"]
        /\ UNCHANGED onlineUsers
  /\ UNCHANGED << now, storeVars, brokerVars, consumerVars, userInfo, jobVars, schedulerVars, listener, sends, foreign >>

\* setUserOffline: the reply of redis.del for user_info:{id}
DeleteUserInfo(s) ==
  /\ sockets[s].off = "del"
  /\ nextReply(sockets[s].offSeq)
  /\ \/ /\ NoFail
        /\ userInfo' = userInfo \ {sockets[s].user}
        /\ sockets' = [sockets EXCEPT ![s].off = "done"]
     \/ /\ CanFail /\ Fail
        /\ sockets' = [sockets EXCEPT ![s].off = "delFailed"]
        /\ UNCHANGED userInfo
  /\ UNCHANGED << now, storeVars, brokerVars, consumerVars, onlineUsers, jobVars, schedulerVars, listener, sends, foreign >>

\* ------------------------------------------------- messages sent by users
\* a call of MessageService.createMessage, from the REST route or from the
\* send_message handler; msg is the id of the document it saved
NewSend(conversationId, senderId, content) ==
  [conversationId |-> conversationId, senderId |-> senderId, content |-> content,
   pc |-> "findById", msg |-> 0]

\* createMessage from its first line to the await of Conversation.findById;
\* a call that fails the argument checks throws before it touches anything
CreateMessage(conversationId, senderId, content) ==
  /\ Len(sends) < MaxSends
  /\ IsValidObjectId(conversationId) /\ IsValidObjectId(senderId)
  /\ Len(Trim(content)) # 0
  /\ Len(content) <= ContentMax
  /\ sends' = Append(sends, NewSend(conversationId, senderId, content))
  /\ UNCHANGED << now, storeVars, brokerVars, consumerVars, presenceVars, schedulerVars, listener,
                  jobVars, faults, foreign >>

\* Conversation.findById resolves or rejects: 404 when there is no such
\* conversation, 403 when the sender is not a participant
ConversationLoaded(r) ==
  /\ sends[r].pc = "findById"
  /\ \/ /\ CanFail /\ Fail
        /\ sends' = [sends EXCEPT ![r].pc = "failed"]
     \/ /\ NoFail
        /\ sends' = [sends EXCEPT ![r].pc =
             IF sends[r].conversationId \notin DOMAIN conversations THEN "failed"
             ELSE IF sends[r].senderId
                       \notin Range(conversations[sends[r].conversationId].participants)
                  THEN "failed"
                  ELSE "save"]
  /\ UNCHANGED << now, storeVars, brokerVars, consumerVars, presenceVars, schedulerVars, listener,
                  jobVars, foreign >>

\* message.save() resolves or rejects
MessageSaved(r) ==
  /\ sends[r].pc = "save"
  /\ \/ /\ CanFail /\ Fail
        /\ sends' = [sends EXCEPT ![r].pc = "failed"]
        /\ UNCHANGED messages
     \/ /\ NoFail
        /\ messages' = Append(messages,
             [id |-> Len(messages) + 1,
              conversationId |-> sends[r].conversationId,
              senderId |-> sends[r].senderId,
              content |-> Trim(sends[r].content),
              isRead |-> FALSE,
              createdAt |-> now,
              autoMessageId |-> 0])
        /\ sends' = [sends EXCEPT ![r].msg = Len(messages) + 1, ![r].pc = "updateLastMessage"]
  /\ UNCHANGED << now, autoMessages, conversations, brokerVars, consumerVars, presenceVars,
                  schedulerVars, listener, jobVars, foreign >>

\* Conversation.updateLastMessage(content, senderId)
updateLastMessage(conversationId, content, senderId) ==
  [conversations EXCEPT
     ![conversationId].lastMessage =
        << [content |-> content, sender |-> senderId, timestamp |-> now] >>,
     ![conversationId].updatedAt = now]

\* conversation.updateLastMessage(content.trim(), senderId) resolves or rejects
LastMessageUpdated(r) ==
  /\ sends[r].pc = "updateLastMessage"
  /\ \/ /\ CanFail /\ Fail
        /\ sends' = [sends EXCEPT ![r].pc = "failed"]
        /\ UNCHANGED conversations
     \/ /\ NoFail
        /\ conversations' = updateLastMessage(sends[r].conversationId,
                                              Trim(sends[r].content), sends[r].senderId)
        /\ sends' = [sends EXCEPT ![r].pc = "populate"]
  /\ UNCHANGED << now, autoMessages, messages, brokerVars, consumerVars, presenceVars,
                  schedulerVars, listener, jobVars, foreign >>

\* savedMessage.populate resolves or rejects; createMessage returns or throws
SenderPopulated(r) ==
  /\ sends[r].pc = "populate"
  /\ \/ /\ CanFail /\ Fail
        /\ sends' = [sends EXCEPT ![r].pc = "failed"]
     \/ /\ NoFail
        /\ sends' = [sends EXCEPT ![r].pc = "done"]
  /\ UNCHANGED << now, storeVars, brokerVars, consumerVars, presenceVars, schedulerVars, listener,
                  jobVars, foreign >>

\* ------------------------------------------------------ the JobManager
\* JobManager.initialize: start() of both jobs schedules their cron tasks
Initialize ==
  /\ ~isInitialized
  /\ cronJob' = [j \in Jobs |-> TRUE]
  /\ isInitialized' = TRUE
  /\ UNCHANGED << now, storeVars, brokerVars, consumerVars, presenceVars, jobVars,
                  sends, listener, faults, foreign >>

\* JobManager.shutdown: stop() of both jobs stops and drops their cron tasks;
\* the call returns without looking at isRunning
Shutdown ==
  /\ isInitialized
  /\ cronJob' = [j \in Jobs |-> FALSE]
  /\ isInitialized' = FALSE
  /\ UNCHANGED << now, storeVars, brokerVars, consumerVars, presenceVars, jobVars,
                  sends, listener, faults, foreign >>

\* the cron task of MessagePlanningJob fires ('0 2 * * *')
PlanningCronTick(i) == cronJob["planning"] /\ PlanningExecuteJob(i)

\* the cron task of QueueManagerJob fires ('* * * * *')
QueueCronTick(i) == cronJob["queue"] /\ QueueExecuteJob(i)

\* --------------------------------------------------------- specifications
\* the pipeline: Planner, Dispatcher and Consumer over the shared store and broker
Next ==
  \/ AdvanceClock
  \/ \E i \in Slots : PlanningExecuteJob(i)
  \/ \E i \in Slots : PlanGetActiveUsers(i)
  \/ \E i \in Slots : PlanSaveAutoMessages(i)
  \/ \E i \in Slots : QueueExecuteJob(i)
  \/ \E i \in Slots : QueueFindPending(i)
  \/ \E i \in Slots : QueueEnsureConnection(i)
  \/ \E i \in Slots : QueueMarkAsQueued(i)
  \/ StartConsumer
  \/ \E f \in DOMAIN frames : HandleMessage(f)
  \/ \E f \in DOMAIN frames : UsersLoaded(f)
  \/ \E f \in DOMAIN frames : FindConversation(f)
  \/ \E f \in DOMAIN frames : SaveConversation(f)
  \/ \E f \in DOMAIN frames : SaveMessage(f)
  \/ \E f \in DOMAIN frames : PopulateMessage(f)
  \/ \E f \in DOMAIN frames : UpdateAutoMessageStatus(f)
  \/ \E f \in DOMAIN frames : IsUserOnline(f)
  \/ \E f \in DOMAIN frames : SendNotification(f)
  \/ \E f \in DOMAIN frames : RetryTimerFires(f)

Spec == Init /\ [][Next]_vars

\* the pipeline when no external call fails
RoundTripNext ==
  \/ AdvanceClock
  \/ \E i \in Slots : PlanningExecuteJob(i) /\ NoFail
  \/ \E i \in Slots : PlanGetActiveUsers(i) /\ NoFail
  \/ \E i \in Slots : PlanSaveAutoMessages(i) /\ NoFail
  \/ \E i \in Slots : QueueExecuteJob(i) /\ NoFail
  \/ \E i \in Slots : QueueFindPending(i) /\ NoFail
  \/ \E i \in Slots : QueueEnsureConnection(i) /\ NoFail
  \/ \E i \in Slots : QueueMarkAsQueued(i) /\ NoFail
  \/ StartConsumer /\ NoFail
  \/ \E f \in DOMAIN frames : HandleMessage(f) /\ NoFail
  \/ \E f \in DOMAIN frames : UsersLoaded(f) /\ NoFail
  \/ \E f \in DOMAIN frames : FindConversation(f) /\ NoFail
  \/ \E f \in DOMAIN frames : SaveConversation(f) /\ NoFail
  \/ \E f \in DOMAIN frames : SaveMessage(f) /\ NoFail
  \/ \E f \in DOMAIN frames : PopulateMessage(f) /\ NoFail
  \/ \E f \in DOMAIN frames : UpdateAutoMessageStatus(f) /\ NoFail
  \/ \E f \in DOMAIN frames : IsUserOnline(f) /\ NoFail
  \/ \E f \in DOMAIN frames : SendNotification(f) /\ NoFail

RoundTripSpec == Init /\ [][RoundTripNext]_vars

\* the two scheduler tasks under cron ticks and manual triggers
SchedulerNext ==
  \/ AdvanceClock
  \/ \E i \in Slots : PlanningExecuteJob(i)
  \/ \E i \in Slots : PlanGetActiveUsers(i)
  \/ \E i \in Slots : PlanSaveAutoMessages(i)
  \/ \E i \in Slots : QueueExecuteJob(i)
  \/ \E i \in Slots : QueueFindPending(i)
  \/ \E i \in Slots : QueueEnsureConnection(i)
  \/ \E i \in Slots : QueueMarkAsQueued(i)

SchedulerSpec == Init /\ [][SchedulerNext]_vars

\* the Consumer alone, fed by arbitrary publishers
ConsumerNext ==
  \/ StartConsumer
  \/ ForeignPublish
  \/ \E f \in DOMAIN frames : HandleMessage(f)
  \/ \E f \in DOMAIN frames : UsersLoaded(f)
  \/ \E f \in DOMAIN frames : FindConversation(f)
  \/ \E f \in DOMAIN frames : SaveConversation(f)
  \/ \E f \in DOMAIN frames : SaveMessage(f)
  \/ \E f \in DOMAIN frames : PopulateMessage(f)
  \/ \E f \in DOMAIN frames : UpdateAutoMessageStatus(f)
  \/ \E f \in DOMAIN frames : IsUserOnline(f)
  \/ \E f \in DOMAIN frames : SendNotification(f)
  \/ \E f \in DOMAIN frames : RetryTimerFires(f)

ConsumerSpec == Init /\ [][ConsumerNext]_vars

\* the Consumer fed with well-formed and ill-formed envelopes
ValidationNext ==
  \/ ConsumerNext
  \/ PublishFrom(IllFormedEnvelopes)

ValidationSpec == Init /\ [][ValidationNext]_vars

\* the Consumer over a store with one queued PlannedMessage whose users may
\* have been deleted or deactivated since it was planned
UserCheckInit ==
  /\ InitProcess
  /\ isConnected = FALSE
  /\ \E pair \in PlannedPairs :
       autoMessages = << [id |-> 1, senderId |-> pair[1], receiverId |-> pair[2],
                          content |-> MESSAGE_TEMPLATES[1], sendDate |-> 0,
                          isQueued |-> TRUE, isSent |-> FALSE,
                          createdAt |-> -60, updatedAt |-> 0] >>

UserCheckNext ==
  \/ StartConsumer
  \/ PublishQueued
  \/ \E f \in DOMAIN frames : HandleMessage(f)
  \/ \E f \in DOMAIN frames : UsersLoaded(f)
  \/ \E f \in DOMAIN frames : FindConversation(f)
  \/ \E f \in DOMAIN frames : SaveConversation(f)
  \/ \E f \in DOMAIN frames : SaveMessage(f)
  \/ \E f \in DOMAIN frames : PopulateMessage(f)
  \/ \E f \in DOMAIN frames : UpdateAutoMessageStatus(f)
  \/ \E f \in DOMAIN frames : IsUserOnline(f)
  \/ \E f \in DOMAIN frames : SendNotification(f)
  \/ \E f \in DOMAIN frames : RetryTimerFires(f)

UserCheckSpec == UserCheckInit /\ [][UserCheckNext]_vars

\* the Consumer over a conversations collection that earlier messages left
\* behind, fed with envelopes between two users in both directions
ConversationInit ==
  /\ now = 0
  /\ autoMessages = <<>> /\ messages = <<>>
  /\ conversations \in ConversationSeeds
  /\ frames = <<>> /\ queue = <<>> /\ isConnected = FALSE
  /\ subscribed = FALSE /\ consumerRunning = FALSE
  /\ stats = NoStats
  /\ onlineUsers = OnlineSample
  /\ userInfo = OnlineSample
  /\ sockets = ConnectedSample
  /\ jobRunning = [j \in Jobs |-> FALSE]
  /\ jobStats = [lastExecution |-> -1, totalProcessed |-> 0, totalQueued |-> 0,
                 totalErrors |-> 0, failedAt |-> "none"]
  /\ skipped = [j \in Jobs |-> FALSE]
  /\ pruns = [i \in Slots |-> IdlePlan]
  /\ qruns = [i \in Slots |-> IdleRun]
  /\ isInitialized = FALSE
  /\ cronJob = [j \in Jobs |-> FALSE]
  /\ sends = <<>>
  /\ listener = FALSE
  /\ faults = 0
  /\ foreign = 0

ConversationNext ==
  \/ StartConsumer
  \/ PublishFrom(PairEnvelopes)
  \/ \E f \in DOMAIN frames : HandleMessage(f)
  \/ \E f \in DOMAIN frames : UsersLoaded(f)
  \/ \E f \in DOMAIN frames : FindConversation(f)
  \/ \E f \in DOMAIN frames : SaveConversation(f)
  \/ \E f \in DOMAIN frames : SaveMessage(f)
  \/ \E f \in DOMAIN frames : PopulateMessage(f)
  \/ \E f \in DOMAIN frames : UpdateAutoMessageStatus(f)
  \/ \E f \in DOMAIN frames : IsUserOnline(f)
  \/ \E f \in DOMAIN frames : SendNotification(f)
  \/ \E f \in DOMAIN frames : RetryTimerFires(f)

ConversationSpec == ConversationInit /\ [][ConversationNext]_vars

\* the conversations under both writers of ChatMessages: users sending
\* messages and the Consumer
MessagingNext ==
  \/ ConversationNext
  \/ \E conversationId \in SendConversationIds, senderId \in UserIds,
        content \in SendContents : CreateMessage(conversationId, senderId, content)
  \/ \E r \in DOMAIN sends : ConversationLoaded(r)
  \/ \E r \in DOMAIN sends : MessageSaved(r)
  \/ \E r \in DOMAIN sends : LastMessageUpdated(r)
  \/ \E r \in DOMAIN sends : SenderPopulated(r)

MessagingSpec == ConversationInit /\ [][MessagingNext]_vars

\* the Consumer with its control operations: start, stop and resetStats may
\* be called at any moment
ConsumerOpsNext ==
  \/ StartConsumer
  \/ StopConsumer
  \/ ResetStats
  \/ ForeignPublish
  \/ \E f \in DOMAIN frames : HandleMessage(f)
  \/ \E f \in DOMAIN frames : UsersLoaded(f)
  \/ \E f \in DOMAIN frames : FindConversation(f)
  \/ \E f \in DOMAIN frames : SaveConversation(f)
  \/ \E f \in DOMAIN frames : SaveMessage(f)
  \/ \E f \in DOMAIN frames : PopulateMessage(f)
  \/ \E f \in DOMAIN frames : UpdateAutoMessageStatus(f)
  \/ \E f \in DOMAIN frames : IsUserOnline(f)
  \/ \E f \in DOMAIN frames : SendNotification(f)
  \/ \E f \in DOMAIN frames : RetryTimerFires(f)

ConsumerOpsSpec == Init /\ [][ConsumerOpsNext]_vars

\* the frames a run of the Consumer can see: each published frame and its retries
FrameIds == 1..(MaxForeign * (RetryAttempts + 1))

\* the Consumer under a running event loop: while a store call, a presence
\* lookup or a retry timer is pending, one of them comes back

ConsumerProgress(f) ==
  /\ f \in DOMAIN frames
  /\ \/ UsersLoaded(f)
     \/ FindConversation(f)
     \/ SaveConversation(f)
     \/ SaveMessage(f)
     \/ PopulateMessage(f)
     \/ UpdateAutoMessageStatus(f)
     \/ IsUserOnline(f)
     \/ SendNotification(f)
     \/ RetryTimerFires(f)

ConsumerLiveSpec == ConsumerSpec /\ WF_vars(\E f \in DOMAIN frames : ConsumerProgress(f))

\* planAutomaticMessages alone, entered with the User.find in flight over
\* any set of active users
ActiveUserLists ==
  {SelectSeq([k \in 1..MaxUsers |-> [id |-> k, isActive |-> TRUE]],
             LAMBDA u : u.id \in S) : S \in SUBSET (1..MaxUsers)}

PairingInit ==
  /\ now = 0
  /\ autoMessages = <<>> /\ conversations = <<>> /\ messages = <<>>
  /\ frames = <<>> /\ queue = <<>> /\ isConnected = FALSE
  /\ subscribed = FALSE /\ consumerRunning = FALSE
  /\ stats = NoStats
  /\ onlineUsers = OnlineSample
  /\ userInfo = OnlineSample
  /\ sockets = ConnectedSample
  /\ jobRunning = [j \in Jobs |-> j = "planning"]
  /\ jobStats = [lastExecution |-> -1, totalProcessed |-> 0, totalQueued |-> 0,
                 totalErrors |-> 0, failedAt |-> "none"]
  /\ skipped = [j \in Jobs |-> FALSE]
  /\ \E list \in ActiveUserLists :
       pruns = [i \in Slots |->
                  IF i = 1 THEN [pc |-> "getUsers", activeUsers |-> list, data |-> <<>>]
                  ELSE IdlePlan]
  /\ qruns = [i \in Slots |-> IdleRun]
  /\ isInitialized = FALSE
  /\ cronJob = [j \in Jobs |-> FALSE]
  /\ sends = <<>>
  /\ listener = FALSE
  /\ faults = 0
  /\ foreign = 0

PairingNext ==
  \/ \E i \in Slots : PlanGetActiveUsers(i)
  \/ \E i \in Slots : PlanSaveAutoMessages(i)

PairingSpec == PairingInit /\ [][PairingNext]_vars

\* the transport layer alone: sockets connect and disconnect
PresenceNext ==
  \/ \E userId \in SocketUsers : Connect(userId)
  \/ \E s \in DOMAIN sockets : SetUserInfo(s)
  \/ \E s \in DOMAIN sockets : Disconnect(s)
  \/ \E s \in DOMAIN sockets : DeleteUserInfo(s)

PresenceSpec == Init /\ [][PresenceNext]_vars

\* the Dispatcher alone, over a store that earlier planning and earlier
\* dispatching left behind: a flag is only ever set on a message that was due
SeedDates == {-1, 0, 1}

SeedMessages ==
  {m \in [sendDate : SeedDates, isQueued : BOOLEAN, isSent : BOOLEAN] :
     (m.isQueued \/ m.isSent) => m.sendDate <= 0}

SeedStore(seed) ==
  [k \in DOMAIN seed |->
     [id |-> k,
      senderId |-> users[1].id,
      receiverId |-> users[2].id,
      content |-> MESSAGE_TEMPLATES[1],
      sendDate |-> seed[k].sendDate,
      isQueued |-> seed[k].isQueued,
      isSent |-> seed[k].isSent,
      createdAt |-> seed[k].sendDate - 60,
      updatedAt |-> IF seed[k].isQueued \/ seed[k].isSent
                    THEN seed[k].sendDate ELSE seed[k].sendDate - 60]]

DispatcherInit ==
  /\ InitProcess
  /\ \E n \in 0..MaxSeed : \E seed \in [1..n -> SeedMessages] : autoMessages = SeedStore(seed)
  /\ isConnected \in BOOLEAN

DispatcherNext ==
  \/ AdvanceClock
  \/ \E i \in Slots : QueueExecuteJob(i)
  \/ \E i \in Slots : QueueFindPending(i)
  \/ \E i \in Slots : QueueEnsureConnection(i)
  \/ \E i \in Slots : QueueMarkAsQueued(i)

DispatcherSpec == DispatcherInit /\ [][DispatcherNext]_vars

\* the Dispatcher under a running scheduler and event loop: cron keeps
\* ticking, and a pending store or broker call comes back
QueueProgress(i) ==
  \/ QueueFindPending(i)
  \/ QueueEnsureConnection(i)
  \/ QueueMarkAsQueued(i)

DispatcherLiveSpec ==
  /\ DispatcherSpec
  /\ WF_vars(\E i \in Slots : QueueExecuteJob(i))
  /\ WF_vars(\E i \in Slots : QueueProgress(i))


\* the scheduler under JobManager: the jobs run on cron ticks only, between
\* initialize() and shutdown()
ShutdownNext ==
  \/ AdvanceClock
  \/ Initialize
  \/ Shutdown
  \/ \E i \in Slots : PlanningCronTick(i)
  \/ \E i \in Slots : PlanGetActiveUsers(i)
  \/ \E i \in Slots : PlanSaveAutoMessages(i)
  \/ \E i \in Slots : QueueCronTick(i)
  \/ \E i \in Slots : QueueFindPending(i)
  \/ \E i \in Slots : QueueEnsureConnection(i)
  \/ \E i \in Slots : QueueMarkAsQueued(i)

ShutdownSpec == Init /\ [][ShutdownNext]_vars

\* the Consumer after a long run: the window holds the durations of 99 or of
\* 100 successful deliveries (1 ms, 2 ms, ...), none has failed
WindowSeeds == { [k \in 1..n |-> k] : n \in {99, 100} }

WindowInit ==
  /\ now = 0
  /\ autoMessages = <<>> /\ conversations = <<>> /\ messages = <<>>
  /\ frames = <<>> /\ queue = <<>> /\ isConnected = FALSE
  /\ subscribed = FALSE /\ consumerRunning = FALSE
  /\ \E seed \in WindowSeeds :
       stats = [totalProcessed |-> Len(seed), totalSuccessful |-> Len(seed),
                totalFailed |-> 0, lastProcessedAt |-> 0, processingTimes |-> seed,
                averageProcessingTime |-> Mean(seed), successes |-> seed]
  /\ onlineUsers = OnlineSample
  /\ userInfo = OnlineSample
  /\ sockets = ConnectedSample
  /\ jobRunning = [j \in Jobs |-> FALSE]
  /\ jobStats = [lastExecution |-> -1, totalProcessed |-> 0, totalQueued |-> 0,
                 totalErrors |-> 0, failedAt |-> "none"]
  /\ skipped = [j \in Jobs |-> FALSE]
  /\ pruns = [i \in Slots |-> IdlePlan]
  /\ qruns = [i \in Slots |-> IdleRun]
  /\ isInitialized = FALSE
  /\ cronJob = [j \in Jobs |-> FALSE]
  /\ sends = <<>>
  /\ listener = FALSE
  /\ faults = 0
  /\ foreign = 0

WindowNext ==
  \/ ConsumerNext
  \/ ResetStats

WindowSpec == WindowInit /\ [][WindowNext]_vars

\* the Planner with the reply of User.find in flight, at two instants, drawing
\* every hour and minute generateRandomSendDate can draw; the Dispatcher asks
\* for due messages at the same instant
PlanningInstants == {0, 90}

SendDateInit ==
  /\ now \in PlanningInstants
  /\ autoMessages = <<>> /\ conversations = <<>> /\ messages = <<>>
  /\ frames = <<>> /\ queue = <<>> /\ isConnected = FALSE
  /\ subscribed = FALSE /\ consumerRunning = FALSE
  /\ stats = NoStats
  /\ onlineUsers = OnlineSample
  /\ userInfo = OnlineSample
  /\ sockets = ConnectedSample
  /\ jobRunning = [j \in Jobs |-> j = "planning"]
  /\ jobStats = [lastExecution |-> -1, totalProcessed |-> 0, totalQueued |-> 0,
                 totalErrors |-> 0, failedAt |-> "none"]
  /\ skipped = [j \in Jobs |-> FALSE]
  /\ pruns = [i \in Slots |->
               IF i = 1
               THEN [pc |-> "getUsers", activeUsers |-> getActiveUsers, data |-> <<>>]
               ELSE IdlePlan]
  /\ qruns = [i \in Slots |-> IdleRun]
  /\ isInitialized = FALSE
  /\ cronJob = [j \in Jobs |-> FALSE]
  /\ sends = <<>>
  /\ listener = FALSE
  /\ faults = 0
  /\ foreign = 0

SendDateNext ==
  \/ \E i \in Slots : planAutomaticMessages(i, HoursToAdd, MinutesToAdd)
  \/ \E i \in Slots : PlanSaveAutoMessages(i)
  \/ \E i \in Slots : QueueExecuteJob(i)
  \/ \E i \in Slots : QueueFindPending(i)

SendDateSpec == SendDateInit /\ [][SendDateNext]_vars

\* the Consumer with a client that listens for MESSAGE_PROCESSED
ListenerNext ==
  \/ ConsumerNext
  \/ OnMessageProcessed

ListenerSpec == Init /\ [][ListenerNext]_vars

\* the Consumer with two envelopes of the same two users in flight: the
\* consume callback is not awaited by the channel, so up to prefetch
\* deliveries are processed at a time
RaceNext ==
  \/ StartConsumer
  \/ PublishTwoFrom(PairEnvelopes)
  \/ \E f \in DOMAIN frames : HandleMessage(f)
  \/ \E f \in DOMAIN frames : UsersLoaded(f)
  \/ \E f \in DOMAIN frames : FindConversation(f)
  \/ \E f \in DOMAIN frames : SaveConversation(f)
  \/ \E f \in DOMAIN frames : SaveMessage(f)
  \/ \E f \in DOMAIN frames : PopulateMessage(f)
  \/ \E f \in DOMAIN frames : UpdateAutoMessageStatus(f)
  \/ \E f \in DOMAIN frames : IsUserOnline(f)
  \/ \E f \in DOMAIN frames : SendNotification(f)
  \/ \E f \in DOMAIN frames : RetryTimerFires(f)

RaceSpec == ConversationInit /\ [][RaceNext]_vars

\* --------------------------------------------------------------- properties
\* the invocations of a job whose task body is in progress
InProgress(job) ==
  {i \in Slots : (IF job = "planning" THEN pruns[i].pc ELSE qruns[i].pc) # "idle"}

\* the frames republished from frame f
Republished(f) == {g \in DOMAIN frames : frames[g].parent = f}

\* the ChatMessages created from envelopes that name PlannedMessage id
ChatMessagesOf(id) == {m \in DOMAIN messages : messages[m].autoMessageId = id}

\* processing of frame f has failed
Failed(f) == frames[f].result = "failure"

\* C1: in every state of the pipeline, every PlannedMessage with isSent = true
\* also has isQueued = true
C1_SentImpliesQueued ==
  \A k \in DOMAIN autoMessages : autoMessages[k].isSent => autoMessages[k].isQueued

\* C2: whatever deliveries happened, the Consumer has created at most one
\* ChatMessage for each autoMessageId
C2_AtMostOneChatMessage ==
  \A m1, m2 \in DOMAIN messages :
    messages[m1].autoMessageId = messages[m2].autoMessageId => m1 = m2

\* C3: the ids a batch passes to markAsQueued are exactly the ids whose
\* envelope was published in that batch
C3_MarkedAreThePublished ==
  \A i \in Slots :
    qruns[i].pc = "mark" => Range(idsToMark(qruns[i])) = qruns[i].published

\* C4: every frame delivered to handleMessage is eventually settled, by
\* exactly one ack or nack
C4_EveryFrameSettled ==
  \A f \in FrameIds :
    (f \in DOMAIN frames /\ frames[f].st # "ready")
      ~> (f \in DOMAIN frames /\ frames[f].st = "done"
            /\ frames[f].acks + frames[f].nacks = 1)

\* a retry chain has run to its end: a republished frame is rejected after
\* its parent was acked
C4_ChainSettled ==
  \E f \in DOMAIN frames :
    /\ frames[f].parent # 0
    /\ frames[f].st = "done" /\ frames[f].nacks = 1
    /\ frames[frames[f].parent].st = "done" /\ frames[frames[f].parent].acks = 1

\* C5: for each job at most one execution of the task body is in progress
C5_AtMostOneExecution == \A job \in Jobs : Cardinality(InProgress(job)) <= 1

\* both jobs are running and each has turned a second invocation away
C5_SecondInvocationSkipped == \A job \in Jobs : skipped[job] /\ InProgress(job) # {}

\* C6 as stated: a failed frame with x-retry-count below 3 is never nacked
C6_RetriedFrameNeverNacked ==
  \A f \in DOMAIN frames :
    (Failed(f) /\ retryCount(frames[f].header) < 3) => frames[f].nacks = 0

\* C6, amended: a failed frame with x-retry-count r < 3 is held until the
\* retry timer fires; then either the same payload is republished once with
\* x-retry-count = r + 1 and the frame is acked (and not nacked), or the
\* republish itself fails and the frame is nacked (and not acked) with
\* nothing republished
C6_RepublishThenAck ==
  \A f \in DOMAIN frames :
    (Failed(f) /\ retryCount(frames[f].header) < 3) =>
      \/ /\ frames[f].st = "timer"
         /\ frames[f].acks = 0 /\ frames[f].nacks = 0
         /\ Republished(f) = {}
      \/ /\ frames[f].st = "done"
         /\ frames[f].acks = 1 /\ frames[f].nacks = 0
         /\ Cardinality(Republished(f)) = 1
         /\ \A g \in Republished(f) :
              /\ frames[g].payload = frames[f].payload
              /\ frames[g].header = << retryCount(frames[f].header) + 1 >>
      \/ /\ frames[f].st = "done"
         /\ frames[f].acks = 0 /\ frames[f].nacks = 1
         /\ Republished(f) = {}

\* a failed frame was republished and acked, and the republished frame
\* failed too and was nacked because its own republish failed
C6_BothOutcomes ==
  \E f, g \in DOMAIN frames :
    /\ Failed(f) /\ frames[f].header = NoHeader /\ frames[f].acks = 1
    /\ g \in Republished(f) /\ frames[g].header = << 1 >>
    /\ Failed(g) /\ frames[g].nacks = 1

\* C7: a failed frame with x-retry-count 3 or more is nacked, MESSAGE_FAILED
\* is emitted, and the payload is never republished
C7_MaxRetriesDeadLetters ==
  \A f \in DOMAIN frames :
    (Failed(f) /\ retryCount(frames[f].header) >= 3) =>
      /\ frames[f].st = "done"
      /\ frames[f].nacks = 1 /\ frames[f].acks = 0
      /\ frames[f].failedEmitted
      /\ Republished(f) = {}

\* the fourth delivery of a payload (x-retry-count = 3) failed and was rejected
C7_FourthDeliveryRejected ==
  \E f \in DOMAIN frames :
    /\ frames[f].parent # 0 /\ frames[f].header = << 3 >>
    /\ Failed(f) /\ frames[f].nacks = 1 /\ frames[f].failedEmitted

\* C8: a frame whose payload does not parse is nacked and never republished,
\* whatever its x-retry-count header
C8_UnparseableDeadLettered ==
  \A f \in DOMAIN frames :
    (~Parses(frames[f].payload) /\ frames[f].st # "ready") =>
      /\ frames[f].st = "done"
      /\ frames[f].nacks = 1 /\ frames[f].acks = 0
      /\ Republished(f) = {}

\* C9: the query of processPendingMessages returns exactly the PlannedMessages
\* with sendDate <= currentDate, isQueued = false and isSent = false, counts
\* them in processed, and the invocation publishes no other message
C9_SelectsExactlyDue ==
  [][\A i \in Slots :
       LET due == {k \in DOMAIN autoMessages :
                     /\ autoMessages[k].sendDate <= qruns[i].currentDate
                     /\ ~autoMessages[k].isQueued
                     /\ ~autoMessages[k].isSent}
           publishedNow == {Parse(frames'[g].payload).autoMessageId :
                              g \in (DOMAIN frames') \ (DOMAIN frames)}
       IN qruns[i].pc # "idle" =>
            /\ publishedNow \subseteq {autoMessages[k].id : k \in due}
            /\ (qruns[i].pc = "find" /\ qruns'[i].pc \in {"connect", "mark"}) =>
                 /\ {qruns'[i].pending[k].id : k \in DOMAIN qruns'[i].pending}
                      = {autoMessages[k].id : k \in due}
                 /\ qruns'[i].result.processed = Cardinality(due)
    ]_vars

\* a message due exactly at currentDate was selected and published while a
\* message of the store that was not due stayed out
C9_BoundarySelected ==
  \E i \in Slots :
    /\ qruns[i].pc = "mark"
    /\ \E k \in DOMAIN qruns[i].pending :
         /\ qruns[i].pending[k].sendDate = qruns[i].currentDate
         /\ qruns[i].pending[k].id \in qruns[i].published
    /\ \E k \in DOMAIN autoMessages :
         /\ autoMessages[k].sendDate > qruns[i].currentDate
         /\ autoMessages[k].id \notin qruns[i].published
         /\ \A j \in DOMAIN qruns[i].pending : qruns[i].pending[j].id # autoMessages[k].id

\* C10: when no step fails, once the frame of a PlannedMessage is settled and
\* the Dispatcher has returned, there is exactly one ChatMessage for it, in a
\* Conversation of its sender and receiver, and it is queued and sent
C10_RoundTrip ==
  \A f \in DOMAIN frames :
    (frames[f].st = "done" /\ ~jobRunning["queue"]) =>
      LET id == Parse(frames[f].payload).autoMessageId
      IN /\ frames[f].acks = 1 /\ frames[f].nacks = 0
         /\ Cardinality(ChatMessagesOf(id)) = 1
         /\ \A m \in ChatMessagesOf(id) :
              /\ Range(conversations[messages[m].conversationId].participants)
                   = {autoMessages[id].senderId, autoMessages[id].receiverId}
              /\ autoMessages[id].senderId # autoMessages[id].receiverId
         /\ autoMessages[id].isQueued /\ autoMessages[id].isSent

\* a planned message went through dispatch and consumption
C10_RoundTripDone ==
  \E f \in DOMAIN frames :
    /\ frames[f].st = "done" /\ frames[f].acks = 1
    /\ ~jobRunning["queue"]
    /\ autoMessages[Parse(frames[f].payload).autoMessageId].isSent
    /\ Cardinality(ChatMessagesOf(Parse(frames[f].payload).autoMessageId)) = 1

\* C11: in every state of the Consumer, after any deliveries, failures,
\* retries and resetStats calls, totalProcessed = totalSuccessful + totalFailed
C11_ProcessedIsSuccessfulPlusFailed ==
  stats.totalProcessed = stats.totalSuccessful + stats.totalFailed

\* a delivery failed, the counters were reset, and the republished frame was
\* then processed successfully
C11_CountedAfterReset ==
  \E f, g \in DOMAIN frames :
    /\ Failed(f) /\ g \in Republished(f)
    /\ frames[g].st = "done" /\ frames[g].acks = 1 /\ frames[g].result = "success"
    /\ stats.totalSuccessful = 1 /\ stats.totalFailed = 0

C13_PublishAttemptsIndependent ==
  [][\A i \in Slots :
       LET added == [j \in 1..(Len(frames') - Len(frames)) |->
                       Parse(frames'[Len(frames) + j].payload).autoMessageId]
           failedNow == faults' - faults
       IN /\ (qruns[i].pc \in {"find", "connect"} /\ qruns'[i].pc = "mark") =>
               LET run == qruns'[i]
                   batch == createBatches(run.pending, BatchSize)[run.b]
                   ids == [k \in DOMAIN batch |-> batch[k].id]
                   publishErrors == SelectSeq(run.batch.errors, LAMBDA e : e.kind = "queue")
               IN /\ added = SelectSeq(ids, LAMBDA id : id \in Range(added))
                  /\ run.batch.queued = Len(added)
                  /\ run.batch.failed = failedNow
                  /\ run.batch.queued + run.batch.failed = Len(batch)
                  /\ Len(publishErrors) = run.batch.failed
                  /\ {publishErrors[j].id : j \in DOMAIN publishErrors}
                       = Range(ids) \ Range(added)
          /\ (qruns[i].pc = "mark" /\ qruns'[i].pc = "idle") =>
               /\ jobStats'.totalQueued = jobStats.totalQueued + qruns[i].batch.queued
               /\ jobStats'.totalErrors = jobStats.totalErrors + qruns[i].batch.failed
          /\ (/\ qruns[i].pc \in {"find", "connect"} /\ qruns'[i].pc = "idle"
              /\ jobStats'.totalProcessed > jobStats.totalProcessed) =>
               /\ added = <<>>
               /\ jobStats'.totalQueued = jobStats.totalQueued
               /\ jobStats'.totalErrors = jobStats.totalErrors + failedNow
               /\ failedNow = jobStats'.totalProcessed - jobStats.totalProcessed
    ]_vars

\* the first envelope of a batch failed to publish and the second one was
\* published all the same
C13_LaterEnvelopePublished ==
  \E i \in Slots :
    /\ qruns[i].pc = "mark"
    /\ Len(qruns[i].pending) >= 2
    /\ qruns[i].batch.failed = 1 /\ qruns[i].batch.queued = 1
    /\ \E g \in DOMAIN frames :
         Parse(frames[g].payload).autoMessageId = qruns[i].pending[2].id
    /\ \A g \in DOMAIN frames :
         Parse(frames[g].payload).autoMessageId # qruns[i].pending[1].id

\* C14: when the query finds no due PlannedMessage the run returns at once
\* with processed = queued = failed = 0: the job counters stay as they were,
\* nothing is published, the broker connection is not touched and no
\* PlannedMessage is marked
C14_NothingDueNothingDone ==
  [][\A i \in Slots :
       LET due == {k \in DOMAIN autoMessages :
                     /\ autoMessages[k].sendDate <= qruns[i].currentDate
                     /\ ~autoMessages[k].isQueued
                     /\ ~autoMessages[k].isSent}
       IN (qruns[i].pc = "find" /\ qruns'[i] # qruns[i] /\ due = {} /\ faults' = faults) =>
            /\ qruns'[i].pc = "idle"
            /\ jobStats'.totalProcessed = jobStats.totalProcessed
            /\ jobStats'.totalQueued = jobStats.totalQueued
            /\ jobStats'.totalErrors = jobStats.totalErrors
            /\ jobStats'.lastExecution = now
            /\ frames' = frames /\ queue' = queue
            /\ isConnected' = isConnected
            /\ autoMessages' = autoMessages
    ]_vars

\* a run over a store that holds only messages that are not due has
\* returned: nothing was counted, published or connected
C14_ReturnedEmpty ==
  /\ jobStats.lastExecution # -1
  /\ jobStats.totalProcessed = 0 /\ jobStats.totalErrors = 0
  /\ autoMessages # <<>>
  /\ frames = <<>> /\ ~isConnected
  /\ \A i \in Slots : qruns[i].pc = "idle"

\* C15: from n >= 2 active users the Planner builds floor(n/2) pairs of
\* distinct users in which no user appears twice, so n mod 2 users stay
\* unpaired; from fewer than 2 it builds none and plans nothing
C15_PairsAreDisjoint ==
  [][\A i \in Slots :
       LET list == pruns[i].activeUsers
           n == Len(list)
           planned == pruns'[i].data
           paired == {planned[k].senderId : k \in DOMAIN planned}
                       \cup {planned[k].receiverId : k \in DOMAIN planned}
       IN (pruns[i].pc = "getUsers" /\ pruns'[i] # pruns[i] /\ faults' = faults) =>
            IF n >= 2
            THEN /\ pruns'[i].pc = "insert"
                 /\ Len(planned) = n \div 2
                 /\ \A k \in DOMAIN planned : planned[k].senderId # planned[k].receiverId
                 /\ paired \subseteq {list[k].id : k \in DOMAIN list}
                 /\ Cardinality(paired) = 2 * Len(planned)
                 /\ n - Cardinality(paired) = n % 2
                 /\ \A rnd \in RandomIndexes(n) : Len(createUserPairs(list, rnd)) = n \div 2
            ELSE /\ pruns'[i].pc = "idle"
                 /\ autoMessages' = autoMessages
                 /\ \A rnd \in RandomIndexes(n) : createUserPairs(list, rnd) = <<>>
    ]_vars

\* three active users were paired: one pair was built and one user left out
C15_OddUserLeftOut ==
  \E i \in Slots :
    /\ pruns[i].pc = "insert"
    /\ Len(pruns[i].activeUsers) = 3
    /\ Len(pruns[i].data) = 1
    /\ \E k \in DOMAIN pruns[i].activeUsers :
         /\ pruns[i].activeUsers[k].id # pruns[i].data[1].senderId
         /\ pruns[i].activeUsers[k].id # pruns[i].data[1].receiverId

\* a tick or manual trigger of the queue job that enters the task body
QueueBodyStarts == \E i \in Slots : QueueExecuteJob(i) /\ qruns'[i].pc = "find"

\* a tick or manual trigger of the planning job that enters the task body
PlanningBodyStarts == \E i \in Slots : PlanningExecuteJob(i) /\ pruns'[i].pc = "getUsers"

\* the task body of invocation i of the job throws in this step
BodyThrows(job, i) ==
  IF job = "planning"
  THEN /\ pruns[i].pc # "idle" /\ pruns'[i].pc = "idle"
       /\ faults' > faults
  ELSE /\ qruns[i].pc # "idle" /\ qruns'[i].pc = "idle"
       /\ jobStats'.totalErrors = jobStats.totalErrors + 1
       /\ jobStats'.totalProcessed = jobStats.totalProcessed
       /\ jobStats'.lastExecution = jobStats.lastExecution

C17_ConnectedUserIsOnline ==
  \A s \in DOMAIN sockets :
    (sockets[s].open /\ sockets[s].on # "saddFailed") =>
      sockets[s].user \in onlineUsers

\* C18: for a frame processed successfully, message_received is emitted
\* exactly when the receiver was in the presence set at the time of the
\* check; in both cases the ChatMessage is in the store and the frame is acked
C18_NotifiedIffOnline ==
  \A f \in DOMAIN frames :
    (frames[f].st = "done" /\ frames[f].result = "success") =>
      /\ frames[f].notified <=> frames[f].wasOnline
      /\ frames[f].msg \in DOMAIN messages
      /\ frames[f].acks = 1 /\ frames[f].nacks = 0

\* C19: once stop() has returned, no frame is delivered to handleMessage: a
\* frame waiting on the queue stays there while the Consumer is stopped
C19_NoDeliveryAfterStop ==
  [][(subscribed /\ ~consumerRunning /\ ~consumerRunning') =>
       \A f \in DOMAIN frames : frames[f].st = "ready" => frames'[f].st = "ready"
    ]_vars

\* C20: no step of the pipeline deletes a PlannedMessage, changes its
\* identity, or turns isQueued or isSent from true back to false
C20_FlagsOnlyMoveForward ==
  [][\A k \in DOMAIN autoMessages :
       /\ k \in DOMAIN autoMessages'
       /\ autoMessages'[k].id = autoMessages[k].id
       /\ autoMessages[k].isQueued => autoMessages'[k].isQueued
       /\ autoMessages[k].isSent => autoMessages'[k].isSent
    ]_vars

\* a PlannedMessage went through its whole lifecycle and a later step of the
\* pipeline ran over it: it is queued and sent, and its frame is settled
C20_LifecycleCompleted ==
  \E k \in DOMAIN autoMessages :
    /\ autoMessages[k].isQueued /\ autoMessages[k].isSent
    /\ \E f \in DOMAIN frames :
         /\ Parse(frames[f].payload).autoMessageId = autoMessages[k].id
         /\ frames[f].st = "done"
    /\ jobStats.lastExecution # -1

\* the x-retry-count headers along a retry chain: a republished frame carries
\* the count of the frame it was republished from plus one, at most
\* RetryAttempts, and a frame is republished at most once
RetryChainCounts ==
  \A f \in DOMAIN frames :
    /\ Cardinality(Republished(f)) <= 1
    /\ frames[f].parent # 0 =>
         /\ retryCount(frames[f].header) = retryCount(frames[frames[f].parent].header) + 1
         /\ retryCount(frames[f].header) <= RetryAttempts
         /\ frames[f].payload = frames[frames[f].parent].payload

\* C21: the x-retry-count of a retry chain goes up by one per republish and
\* never exceeds 3, and the delivery with x-retry-count = 3 that fails is
\* dead-lettered (nacked, never republished) without having created a
\* ChatMessage
C21_RetryChainEndsWithoutChatMessage ==
  /\ RetryChainCounts
  /\ \A f \in DOMAIN frames :
       (Failed(f) /\ retryCount(frames[f].header) = RetryAttempts) =>
         /\ frames[f].st = "done"
         /\ frames[f].nacks = 1 /\ frames[f].acks = 0
         /\ Republished(f) = {}
         /\ frames[f].msg = 0

\* the PlannedMessages a store of the Dispatcher study can hold
SeedIds == 1..MaxSeed

\* an envelope of PlannedMessage id was put on message_sending_queue
Published(id) ==
  \E g \in DOMAIN frames :
    Parses(frames[g].payload) /\ Parse(frames[g].payload).autoMessageId = id

\* C22: while ticks keep coming and the broker and the store stop failing,
\* every PlannedMessage that is due and not yet queued or sent is eventually
\* published to message_sending_queue
C22_DueEventuallyPublished ==
  \A id \in SeedIds :
    (id \in DOMAIN autoMessages /\ IsPending(autoMessages[id], now)) ~> Published(id)

\* C23: an invocation that finds its job running is dropped: the step changes
\* no counter, no run, no store or broker state, and a task body is entered
\* only by an invocation that found the job idle, never when a run returns
C23_SkippedInvocationHasNoEffect ==
  [][\A job \in Jobs :
       /\ (skipped'[job] /\ ~skipped[job]) =>
            /\ jobRunning[job]
            /\ UNCHANGED << now, storeVars, brokerVars, jobStats, jobRunning, pruns, qruns,
                            faults >>
       /\ \A i \in Slots :
            LET before == IF job = "planning" THEN pruns[i].pc ELSE qruns[i].pc
                after == IF job = "planning" THEN pruns'[i].pc ELSE qruns'[i].pc
                first == IF job = "planning" THEN "getUsers" ELSE "find"
            IN (after = first /\ before # first) => (before = "idle" /\ ~jobRunning[job])
    ]_vars

\* an invocation of the queue job was skipped while a run was waiting for
\* markAsQueued, and that run has not returned yet
C23_SkippedDuringMark ==
  /\ skipped["queue"]
  /\ \E i \in Slots : qruns[i].pc = "mark" /\ qruns[i].published # {}
  /\ jobStats.lastExecution = -1

\* C24: when shutdown() returns no task body is executing, and afterwards no
\* cron tick enters a task body
C24_ShutdownWaitsForRuns ==
  /\ [][(isInitialized /\ ~isInitialized') =>
          \A job \in Jobs : InProgress(job)' = {} /\ ~jobRunning'[job]
       ]_vars
  /\ [][\A job \in Jobs :
          (InProgress(job) = {} /\ InProgress(job)' # {}) => cronJob[job]
       ]_vars

\* C25: a frame whose envelope parses and fails validateQueueMessage is
\* dead-lettered when it is handled: nacked without requeue, not acked, and
\* never republished
C25_InvalidEnvelopeDeadLettered ==
  \A f \in DOMAIN frames :
    (/\ Parses(frames[f].payload)
     /\ validateQueueMessage(Parse(frames[f].payload)) # "ok"
     /\ frames[f].st # "ready") =>
      /\ frames[f].st = "done"
      /\ frames[f].nacks = 1 /\ frames[f].acks = 0
      /\ Republished(f) = {}

\* the user document is there and active
ActiveUser(id) == \E k \in DOMAIN users : users[k].id = id /\ users[k].isActive

\* C26: an attempt on an envelope whose sender or receiver is missing or
\* inactive fails at the user check: it resolves no Conversation and saves no
\* ChatMessage, the step leaves the three collections as they were (isSent
\* is not set), and the frame takes the retry protocol: below x-retry-count
\* 3 the timer is armed and the payload republished with the count plus one
\* (or the frame nacked if that republish fails), at 3 or more it is nacked
C26_MissingOrInactiveUserFails ==
  /\ [](\A f \in DOMAIN frames :
          LET queueMessage == Parse(frames[f].payload)
              r == retryCount(frames[f].header)
          IN (/\ Parses(frames[f].payload)
              /\ ~(ActiveUser(queueMessage.senderId) /\ ActiveUser(queueMessage.receiverId))
              /\ frames[f].st # "ready"
              /\ frames[f].pc # "validateUsers") =>
               /\ Failed(f)
               /\ frames[f].conv = 0 /\ frames[f].msg = 0
               /\ conversations = <<>> /\ messages = <<>>
               /\ \A k \in DOMAIN autoMessages :
                    autoMessages[k].id = queueMessage.autoMessageId => ~autoMessages[k].isSent
               /\ IF r < RetryAttempts
                  THEN \/ /\ frames[f].st = "timer"
                          /\ frames[f].acks = 0 /\ frames[f].nacks = 0
                          /\ Republished(f) = {}
                       \/ /\ frames[f].st = "done"
                          /\ frames[f].acks = 1 /\ frames[f].nacks = 0
                          /\ \E g \in DOMAIN frames :
                               /\ Republished(f) = {g}
                               /\ frames[g].payload = frames[f].payload
                               /\ frames[g].header = << r + 1 >>
                       \/ /\ frames[f].st = "done"
                          /\ frames[f].acks = 0 /\ frames[f].nacks = 1
                          /\ Republished(f) = {}
                  ELSE /\ frames[f].st = "done"
                       /\ frames[f].acks = 0 /\ frames[f].nacks = 1
                       /\ Republished(f) = {})
  /\ [][\A f \in DOMAIN frames :
          (frames[f].pc = "validateUsers" /\ Failed(f)') =>
            UNCHANGED << autoMessages, conversations, messages >>
       ]_vars

\* the envelope of a PlannedMessage with an inactive receiver failed its
\* first attempt, was republished, and failed again on the second delivery
C26_InactiveReceiverRetried ==
  \E f, g \in DOMAIN frames :
    /\ frames[f].header = NoHeader /\ Failed(f)
    /\ g \in Republished(f) /\ Failed(g) /\ frames[g].st = "timer"
    /\ ActiveUser(Parse(frames[f].payload).senderId)
    /\ ~ActiveUser(Parse(frames[f].payload).receiverId)
    /\ Parse(frames[f].payload).receiverId # NoSuchUser
    /\ faults = 0

\* C27: a PlannedMessage with isSent = true has a ChatMessage created from
\* its envelope, and the step that sets isSent belongs to a delivery whose
\* own ChatMessage is already in the store
C27_SentOnlyAfterPersist ==
  /\ [](\A k \in DOMAIN autoMessages :
          autoMessages[k].isSent => ChatMessagesOf(autoMessages[k].id) # {})
  /\ [][\A k \in DOMAIN autoMessages :
          (~autoMessages[k].isSent /\ autoMessages'[k].isSent) =>
            \E f \in DOMAIN frames :
              /\ frames[f].pc = "markSent" /\ frames'[f].pc = "notify"
              /\ Parse(frames[f].payload).autoMessageId = autoMessages[k].id
              /\ frames[f].msg \in ChatMessagesOf(autoMessages[k].id)
       ]_vars

\* the first attempt on an envelope failed before anything was saved, and the
\* republished frame saved its ChatMessage and then set isSent
C27_SentAfterRetry ==
  \E f, g \in DOMAIN frames :
    /\ Failed(f) /\ frames[f].msg = 0 /\ g \in Republished(f)
    /\ frames[g].pc = "notify" /\ frames[g].msg \in DOMAIN messages
    /\ \E k \in DOMAIN autoMessages :
         /\ autoMessages[k].id = Parse(frames[g].payload).autoMessageId
         /\ autoMessages[k].isSent

\* no PlannedMessage of the store has the autoMessageId of frame f
PlannedMessageMissing(f) ==
  \A k \in DOMAIN autoMessages : autoMessages[k].id # Parse(frames[f].payload).autoMessageId

\* C28: when markAsSent finds no PlannedMessage for the envelope, processing
\* reports success all the same: the ChatMessage stays in the store, the
\* frame is acked once, never nacked or republished, and totalSuccessful
\* goes up by one
C28_MissingPlannedMessageIsNotFatal ==
  /\ [][\A f \in DOMAIN frames :
          (frames[f].pc = "markSent" /\ frames'[f] # frames[f] /\ PlannedMessageMissing(f)) =>
            /\ frames'[f].result = "success" /\ frames'[f].pc = "notify"
            /\ frames[f].msg \in DOMAIN messages
            /\ messages' = messages /\ autoMessages' = autoMessages
            /\ stats' = stats
       ]_vars
  /\ [](\A f \in DOMAIN frames :
          (frames[f].result = "success" /\ PlannedMessageMissing(f)) =>
            /\ frames[f].msg \in DOMAIN messages
            /\ frames[f].nacks = 0 /\ Republished(f) = {}
            /\ frames[f].st = "done" => frames[f].acks = 1)
  /\ [][\A f \in DOMAIN frames :
          (frames[f].result = "success" /\ frames[f].st # "done" /\ frames'[f].st = "done") =>
            /\ stats'.totalSuccessful = stats.totalSuccessful + 1
            /\ stats'.totalProcessed = stats.totalProcessed + 1
            /\ stats'.totalFailed = stats.totalFailed
       ]_vars

\* an envelope naming a PlannedMessage that is not in the store was processed
\* at its first delivery: its ChatMessage is stored and its frame acked
C28_AckedWithoutPlannedMessage ==
  \E f \in DOMAIN frames :
    /\ PlannedMessageMissing(f)
    /\ frames[f].parent = 0 /\ frames[f].header = NoHeader
    /\ frames[f].st = "done" /\ frames[f].result = "success" /\ frames[f].acks = 1
    /\ frames[f].msg \in DOMAIN messages
    /\ stats.totalSuccessful = 1 /\ stats.totalFailed = 0
    /\ faults = 0

\* the conversations whose participants are exactly the two users
ConversationsBetween(a, b) ==
  {c \in DOMAIN conversations : Range(conversations[c].participants) = {a, b}}

\* C29: when a Conversation of sender and receiver exists, in whichever order
\* its participants were stored, the lookup of createOrFindConversation
\* returns its id and no Conversation is created; when none exists the
\* delivery goes on to create one
C29_ConversationReused ==
  [][\A f \in DOMAIN frames :
       LET queueMessage == Parse(frames[f].payload)
           existing == ConversationsBetween(queueMessage.senderId, queueMessage.receiverId)
       IN (frames[f].pc = "findConv" /\ frames'[f] # frames[f] /\ faults' = faults) =>
            /\ conversations' = conversations
            /\ IF existing # {}
               THEN /\ frames'[f].pc = "createMsg"
                    /\ frames'[f].conv \in {conversations[c].id : c \in existing}
               ELSE frames'[f].pc = "saveConv"
    ]_vars

\* a message from user 2 to user 1 was stored in the conversation that had
\* been created with participants (1, 2), and the collection still holds
\* that one conversation
C29_ReverseOrderReused ==
  /\ Len(conversations) = 1
  /\ conversations[1].participants = << 1, 2 >>
  /\ \E f \in DOMAIN frames :
       /\ Parse(frames[f].payload).senderId = 2
       /\ Parse(frames[f].payload).receiverId = 1
       /\ frames[f].conv = 1
       /\ frames[f].msg \in DOMAIN messages
       /\ messages[frames[f].msg].conversationId = 1

\* the operation that stored ChatMessage m has returned successfully
StoredBy(m) ==
  \/ \E f \in DOMAIN frames : frames[f].msg = m /\ frames[f].result = "success"
  \/ \E r \in DOMAIN sends : sends[r].msg = m /\ sends[r].pc = "done"

\* C30: once the operation that stored a ChatMessage has returned, the
\* Conversation of the message has a lastMessage, with the content and the
\* sender of that message or of a later one of the conversation, and an
\* updatedAt not older than the message
C30_LastMessageFollowsMessages ==
  \A m \in DOMAIN messages :
    StoredBy(m) =>
      LET c == conversations[messages[m].conversationId]
      IN /\ c.lastMessage # <<>>
         /\ \E m2 \in DOMAIN messages :
              /\ m2 >= m
              /\ messages[m2].conversationId = messages[m].conversationId
              /\ c.lastMessage[1].content = messages[m2].content
              /\ c.lastMessage[1].sender = messages[m2].senderId
         /\ c.updatedAt >= messages[m].createdAt

\* the steps of one delivery, in the order handleMessage and
\* processQueueMessage take them: from each position the positions that may
\* follow when the step does not fail
FlowSteps ==
  { << "none", "validateUsers" >>, << "validateUsers", "findConv" >>,
    << "findConv", "saveConv" >>, << "findConv", "createMsg" >>,
    << "saveConv", "createMsg" >>, << "createMsg", "populate" >>,
    << "populate", "markSent" >>, << "markSent", "notify" >>,
    << "notify", "loadMessage" >>, << "notify", "none" >>, << "loadMessage", "none" >> }

Last(n, s) == SubSeq(s, Len(s) - Min(n, Len(s)) + 1, Len(s))

\* C32: the window never holds more than 100 entries, it is the last 100
\* durations of the deliveries acked as processed since construction or the
\* last resetStats, in their order; averageProcessingTime is the sum of the
\* window over its length (0 while the window is empty), and a step that
\* counts a failed delivery leaves window and average as they were
C32_WindowHoldsRecentSuccesses ==
  /\ [](Len(stats.processingTimes) <= 100)
  /\ [](stats.processingTimes = Last(100, stats.successes))
  /\ [](IF stats.processingTimes = <<>>
        THEN stats.averageProcessingTime = [num |-> 0, den |-> 1]
        ELSE /\ stats.averageProcessingTime.den = Len(stats.processingTimes)
             /\ stats.averageProcessingTime.num = Sum(Last(100, stats.successes)))
  /\ [][stats'.totalFailed > stats.totalFailed =>
          /\ stats'.processingTimes = stats.processingTimes
          /\ stats'.averageProcessingTime = stats.averageProcessingTime
          /\ stats'.totalSuccessful = stats.totalSuccessful
       ]_vars

\* a delivery failed and its retry was processed while the window was full:
\* the oldest duration (1 ms) is gone and the new one is the last entry
C32_OldestDropped ==
  /\ Len(stats.successes) = 101
  /\ Len(stats.processingTimes) = 100
  /\ stats.processingTimes[1] = 2
  /\ stats.processingTimes[100] \in ProcessingTimeSamples
  /\ stats.totalFailed = 1

C34_FailedRepublishNacks ==
  /\ [][\A f \in DOMAIN frames :
          (frames[f].st = "timer" /\ frames'[f].st # "timer") =>
            IF Len(frames') = Len(frames)
            THEN /\ faults' = faults + 1
                 /\ frames'[f].st = "done"
                 /\ frames'[f].nacks = frames[f].nacks + 1
                 /\ frames'[f].acks = 0
                 /\ queue' = queue
            ELSE /\ frames'[f].acks = frames[f].acks + 1
                 /\ frames'[f].nacks = 0
                 /\ frames'[Len(frames')].parent = f
       ]_vars
  /\ [][\A f \in DOMAIN frames :
          frames[f].st = "done" => (frames'[f] = frames[f] /\ f \notin Range(queue'))
       ]_vars

\* a frame delivered with x-retry-count = 2 failed on an inactive receiver,
\* and the republish from its timer failed: the frame is nacked, not acked,
\* and no frame with x-retry-count = 3 exists
C34_NackedAfterFailedRepublish ==
  \E f \in DOMAIN frames :
    /\ frames[f].header = << 2 >> /\ Failed(f)
    /\ frames[f].st = "done" /\ frames[f].nacks = 1 /\ frames[f].acks = 0
    /\ ~frames[f].failedEmitted
    /\ Republished(f) = {}
    /\ queue = <<>>
    /\ faults = 1

\* the documents of the store keep their place and, flags and updatedAt
\* aside, their fields; no ChatMessage or Conversation is written
DispatcherKeepsDocuments ==
  /\ Len(autoMessages') = Len(autoMessages)
  /\ messages' = messages /\ conversations' = conversations
  /\ \A k \in DOMAIN autoMessages :
       /\ [autoMessages'[k] EXCEPT !.isQueued = autoMessages[k].isQueued,
                                   !.updatedAt = autoMessages[k].updatedAt] = autoMessages[k]
       /\ autoMessages'[k].isQueued # autoMessages[k].isQueued =>
            /\ ~autoMessages[k].isQueued
            /\ \E i \in Slots :
                 qruns[i].pc = "mark" /\ autoMessages[k].id \in PendingIds(qruns[i])

\* C35 as stated: a run of processPendingMessages changes no field of a
\* PlannedMessage other than isQueued
C35_OnlyIsQueuedChanges ==
  [][/\ DispatcherKeepsDocuments
     /\ \A k \in DOMAIN autoMessages :
          autoMessages'[k].updatedAt = autoMessages[k].updatedAt
    ]_vars

\* C35, amended: a run of processPendingMessages changes isQueued, only from
\* false to true and only for messages selected in that run, and with it the
\* updatedAt timestamp of the documents its update matches, which the store
\* sets to the time of the update; it changes no other field of a
\* PlannedMessage and writes no ChatMessage and no Conversation
C35_OnlyIsQueuedAndUpdatedAt ==
  [][/\ DispatcherKeepsDocuments
     /\ \A k \in DOMAIN autoMessages :
          autoMessages'[k].updatedAt # autoMessages[k].updatedAt =>
            /\ autoMessages'[k].updatedAt = now
            /\ ~autoMessages[k].isQueued /\ autoMessages'[k].isQueued
    ]_vars

\* a run has marked a due message as queued, some time after it was planned,
\* while a message that was not due stayed as it was
C35_DueMarkedOtherLeft ==
  \E k, j \in DOMAIN autoMessages :
    /\ autoMessages[k].isQueued /\ ~autoMessages[k].isSent
    /\ autoMessages[k].updatedAt > autoMessages[k].sendDate
    /\ ~autoMessages[j].isQueued /\ autoMessages[j].updatedAt = autoMessages[j].createdAt
    /\ jobStats.totalQueued = 1

\* C36: every frame is settled at most once: over its whole life the
\* Consumer calls ack or nack for it at most one time in total
C36_SettledAtMostOnce ==
  \A f \in DOMAIN frames : frames[f].acks + frames[f].nacks <= 1

\* C37: an attempt that ends in the failure path has left no ChatMessage in
\* the store, so that after a retry of its envelope the store holds no
\* ChatMessage of a failed attempt next to the one of the retry
C37_FailedAttemptLeavesNoChatMessage ==
  \A f \in DOMAIN frames :
    Failed(f) =>
      /\ frames[f].msg \notin DOMAIN messages
      /\ \A g \in Republished(f) :
           frames[g].msg \in DOMAIN messages =>
             \A m \in DOMAIN messages :
               messages[m].autoMessageId = Parse(frames[f].payload).autoMessageId =>
                 m = frames[g].msg

\* C38: in every state the conversations collection holds at most one
\* Conversation for each unordered pair of users
C38_OneConversationPerPair ==
  \A c1, c2 \in DOMAIN conversations :
    Range(conversations[c1].participants) = Range(conversations[c2].participants) => c1 = c2

\* C39: a frame acked as processed whose PlannedMessage is in the store
\* leaves that PlannedMessage with isSent = true from the ack on
C39_AckedMeansSent ==
  \A f \in DOMAIN frames :
    (frames[f].result = "success" /\ frames[f].acks > 0) =>
      \A k \in DOMAIN autoMessages :
        autoMessages[k].id = Parse(frames[f].payload).autoMessageId => autoMessages[k].isSent

\* no setUserOnline or setUserOffline call is in progress
PresenceQuiescent ==
  \A s \in DOMAIN sockets : sockets[s].on = "done" /\ sockets[s].off \in {"none", "done"}

====
